---- MODULE Spec2Model ----
(***************************************************************************)
(* Server discovery and query state machine of                            *)
(* engine/source/game/net/serverQuery.cpp: the master query, the list     *)
(* packet reassembly, the ping phase and the query phase, driven by the   *)
(* console operations, by the Sim events the handlers post for            *)
(* themselves and by the packets handleInfoPacket dispatches.             *)
(*                                                                         *)
(* The build modelled is the one without TORQUE_NET_HOLEPUNCHING and      *)
(* with TORQUE_COMPILER_MINGW: a LAN query enqueues the IP broadcast ping *)
(* only, not the IPX one. It is a release build (no TORQUE_DEBUG): the    *)
(* test function addFakeServers is not part of it.                        *)
(***************************************************************************)
EXTENDS Integers, Sequences, FiniteSets, TLC

---------------------------------------------------------------------------
(* Bounds of the model *)

NumServers == 12         \* game server addresses 1..NumServers
NumResponders == 2       \* servers that answer, 1..NumResponders
NumMasters == 2          \* master server addresses
MaxSession == 2          \* clearServerList is not called beyond this session
MaxOps == 2              \* console operations per behaviour
MaxTicks == 2            \* clock advances per behaviour of Spec
TickStep == 1001         \* milliseconds per clock advance
StartTime == 5000        \* the clock when the first operation can run
MaxPingListLen == 3      \* packets that would grow gPingList beyond this are not delivered
MaxPacketTotal == 2      \* packetTotal of a master list response
MaxFavorites == 1        \* $pref::Client::ServerFavoriteCount
SilentTicks == 18        \* clock advances per behaviour of SpecSilent and SpecMasters
DoneDeadline == 10000    \* ms in which a single server query must be over: four pings, four queries and slack
FlightTicks == 7         \* clock advances per behaviour of SpecFlight
FlightResponders == 3    \* servers that answer in SpecFlight
FilterTicks == 2         \* clock advances per behaviour of SpecFilter
MaxPlayerCount == 4      \* Server::PlayerCount of the hosting side
MaxGuids == 4            \* GUIDs published in Server::GuidList
HeartbeatOps == 3        \* console operations per behaviour of SpecHeartbeat
HeartbeatTicks == 21     \* clock advances per behaviour of SpecHeartbeat
MaxSeed == 4             \* strings of each length written in SpecFields
MaxFragments == 3        \* packetTotal of the master's list in SpecLossy
LossyStep == 801         \* milliseconds per clock advance of SpecLossy
LossyTicks == 20         \* clock advances per behaviour of SpecLossy

---------------------------------------------------------------------------
(* Program constants *)

gHeartbeatInterval == 10000
gMasterServerRetryCount == 3
gMasterServerTimeout == 2000
gPacketRetryCount == 4
gPacketTimeout == 1000
gMaxConcurrentPings == 10
gMaxConcurrentQueries == 2
gPingRetryCount == 4
gPingTimeout == 800
gQueryRetryCount == 4
gQueryTimeout == 1000

versionString == "VER1"
\* GameConnection::CurrentProtocolVersion, MinRequiredProtocolVersion and
\* getVersionNumber() are compared with the fields of a ping response only.
CurrentProtocolVersion == 12
MinRequiredProtocolVersion == 12
VersionNumber == 1000

---------------------------------------------------------------------------
(* Addresses *)

Servers == 1..NumServers
BroadcastIP == NumServers + 1
MasterAddr(i) == NumServers + 1 + i
Masters == {MasterAddr(i) : i \in 1..NumMasters}

---------------------------------------------------------------------------
(* Sequences *)

Erase(seq, i) == [j \in 1..(Len(seq) - 1) |-> IF j < i THEN seq[j] ELSE seq[j + 1]]

\* index of the first element with this address, 0 when there is none
FindAddr(seq, addr) ==
    IF \E j \in 1..Len(seq) : seq[j].address = addr
    THEN CHOOSE j \in 1..Len(seq) :
            /\ seq[j].address = addr
            /\ \A k \in 1..(j - 1) : seq[k].address # addr
    ELSE 0

Pow2(n) == 2 ^ n

\* U32((session << 16) | (key & 0xFFFF)): the low 16 bits of the session above
\* the low 16 bits of the key
KeyField(session, key) == ((session % Pow2(16)) * Pow2(16)) + (key % Pow2(16))

---------------------------------------------------------------------------
(* Packet fields *)

\* A stream is the sequence of the bytes written to it; a string is the
\* sequence of its bytes, none of them 0.

\* stream->write of a U16 and of a U32: the low byte first
U16Bytes(v) == <<v % Pow2(8), (v \div Pow2(8)) % Pow2(8)>>

U32Bytes(v) == U16Bytes(v % Pow2(16)) \o U16Bytes(v \div Pow2(16))

ReadU16(stream, at) == stream[at] + stream[at + 1] * Pow2(8)

\* the string a NUL-terminated buffer holds
CString(buffer) ==
    LET nul == {i \in 1..Len(buffer) : buffer[i] = 0}
    IN SubSeq(buffer, 1, (CHOOSE i \in nul : \A k \in nul : i <= k) - 1)

\* U8 strLen = dStrlen(string); write(strLen); strLen times write(U8(string[i]))
writeCString(stream, string) ==
    LET strLen == Len(string) % Pow2(8)
    IN stream \o <<strLen>> \o SubSeq(string, 1, strLen)

\* read(&strLen); strLen times read(&buffer[i]); buffer[i] = 0
readCString(stream) ==
    LET strLen == stream[1]
    IN [buffer |-> CString(SubSeq(stream, 2, 1 + strLen) \o <<0>>),
        rest |-> SubSeq(stream, 2 + strLen, Len(stream))]

\* writeLongCString with the length kept in a U8
writeLongCStringNarrow(stream, string) ==
    LET strLen == Len(string) % Pow2(8)
    IN stream \o U16Bytes(strLen) \o SubSeq(string, 1, strLen)

\* U16 strLen = dStrlen(string); write(strLen); strLen times write(U8(string[i]))
writeLongCString(stream, string) ==
    LET strLen == Len(string) % Pow2(16)
    IN stream \o U16Bytes(strLen) \o SubSeq(string, 1, strLen)

readLongCString(stream) ==
    LET strLen == ReadU16(stream, 1)
    IN [buffer |-> CString(SubSeq(stream, 3, 2 + strLen) \o <<0>>),
        rest |-> SubSeq(stream, 3 + strLen, Len(stream))]

---------------------------------------------------------------------------
(* State *)

VARIABLES
    now,                       \* Platform::getVirtualMilliseconds / Sim time
    gServerList,
    gMasterServerList,
    gFinishedList,
    gMasterServerQueryAddress,
    sgServerQueryActive,
    gPingSession,
    gKey,
    gGotFirstListPacket,
    gServerPingCount,
    gServerQueryCount,
    gHeartbeatSeq,
    gMasterServerPing,
    gPingList,
    gQueryList,
    gPacketStatusList,
    sActiveFilter,
    events,                    \* the Sim event queue: posted, not yet processed
    out,                       \* packets sent by the last step
    emitted,                   \* onServerQueryStatus calls of the last step
    lastOp,                    \* the operation the last step ran
    wire,                      \* every request sent so far: what a reply can echo
    rejected,                  \* every <<session, address>> whose ping response was rejected
    masterCfg,                 \* Server::Master0..9, as getMasterServerList parses them
    favoriteCfg,               \* Pref::Client::ServerFavorite<i> addresses
    prefRegion,                \* $pref::Net::RegionMask
    field,                     \* the packet field last written to the packet stream
                               \* and what was read back from it
    serverCfg,                 \* the hosting side: GNet->doesAllowConnections(), the
                               \* Server:: and Pref::Server:: variables, and what
                               \* validateAuthenticatedServer() returns
    opsLeft,
    ticksLeft

progVars == <<gServerList, gMasterServerList, gFinishedList, gMasterServerQueryAddress,
              sgServerQueryActive, gPingSession, gKey, gGotFirstListPacket,
              gServerPingCount, gServerQueryCount, gHeartbeatSeq, gMasterServerPing,
              gPingList,
              gQueryList, gPacketStatusList, sActiveFilter, events, out, emitted>>
cfgVars == <<masterCfg, favoriteCfg, prefRegion, serverCfg>>
vars == <<now, progVars, lastOp, wire, rejected, cfgVars, field, opsLeft, ticksLeft>>

\* The globals the handlers read and write, as one record.
Globals ==
    [gServerList |-> gServerList,
     gMasterServerList |-> gMasterServerList,
     gFinishedList |-> gFinishedList,
     gMasterServerQueryAddress |-> gMasterServerQueryAddress,
     sgServerQueryActive |-> sgServerQueryActive,
     gPingSession |-> gPingSession,
     gKey |-> gKey,
     gGotFirstListPacket |-> gGotFirstListPacket,
     gServerPingCount |-> gServerPingCount,
     gServerQueryCount |-> gServerQueryCount,
     gHeartbeatSeq |-> gHeartbeatSeq,
     gMasterServerPing |-> gMasterServerPing,
     gPingList |-> gPingList,
     gQueryList |-> gQueryList,
     gPacketStatusList |-> gPacketStatusList,
     sActiveFilter |-> sActiveFilter,
     events |-> events,
     out |-> <<>>,
     emitted |-> <<>>]

Becomes(s) ==
    /\ gServerList' = s.gServerList
    /\ gMasterServerList' = s.gMasterServerList
    /\ gFinishedList' = s.gFinishedList
    /\ gMasterServerQueryAddress' = s.gMasterServerQueryAddress
    /\ sgServerQueryActive' = s.sgServerQueryActive
    /\ gPingSession' = s.gPingSession
    /\ gKey' = s.gKey
    /\ gGotFirstListPacket' = s.gGotFirstListPacket
    /\ gServerPingCount' = s.gServerPingCount
    /\ gServerQueryCount' = s.gServerQueryCount
    /\ gHeartbeatSeq' = s.gHeartbeatSeq
    /\ gMasterServerPing' = s.gMasterServerPing
    /\ gPingList' = s.gPingList
    /\ gQueryList' = s.gQueryList
    /\ gPacketStatusList' = s.gPacketStatusList
    /\ sActiveFilter' = s.sActiveFilter
    /\ events' = s.events
    /\ out' = s.out
    /\ emitted' = s.emitted

---------------------------------------------------------------------------
(* Records *)

\* a Ping that has no try left
NewPingSpent(addr, session, tries, bc, local) ==
    [address |-> addr, session |-> session, key |-> 0, time |-> 0,
     tryCount |-> 0, broadcast |-> bc, isLocal |-> local]

\* struct Ping as pushPingRequest and pushPingBroadcast fill it
NewPing(addr, session, tries, bc, local) ==
    [address |-> addr, session |-> session, key |-> 0, time |-> 0,
     tryCount |-> tries, broadcast |-> bc, isLocal |-> local]

\* a PacketStatus with one try more
PacketStatusEager(index, key, time) ==
    [index |-> index, key |-> key, time |-> time, tryCount |-> gPacketRetryCount + 1]

\* PacketStatus(_index, _key, _time)
PacketStatus(index, key, time) ==
    [index |-> index, key |-> key, time |-> time, tryCount |-> gPacketRetryCount]

\* a default constructed ServerInfo with its address set
NewServerInfo(addr) ==
    [address |-> addr, status |-> {"New"}, isLocal |-> FALSE, isFavorite |-> FALSE,
     gameType |-> "NULL", missionType |-> "NULL"]

\* a packet handed to the socket
Packet(type, to, key, page) == [type |-> type, to |-> to, key |-> key, page |-> page]

\* Sim::postEvent
SimEvent(type, session, due) == [type |-> type, session |-> session, due |-> due]

\* Con::executef(4, "onServerQueryStatus", phase, msg, progress), with the
\* numbers the message and the progress are computed from, and for "done"
\* the sizes of the lists at the call.
StatusEvent(phase, msg, left, total, s) ==
    [phase |-> phase, msg |-> msg, left |-> left, total |-> total,
     pings |-> Len(s.gPingList), queries |-> Len(s.gQueryList),
     packets |-> Len(s.gPacketStatusList),
     awaiting |-> /\ s.sgServerQueryActive
                  /\ ~s.gGotFirstListPacket
                  /\ \E j \in 1..Len(s.events) :
                        /\ s.events[j].type = "ProcessMasterQueryEvent"
                        /\ s.events[j].session = s.gPingSession]

Emit(s, phase, msg, left, total) ==
    [s EXCEPT !.emitted = Append(@, StatusEvent(phase, msg, left, total, s))]

Send(s, pkt) == [s EXCEPT !.out = Append(@, pkt)]

Post(s, ev) == [s EXCEPT !.events = Append(@, ev)]

---------------------------------------------------------------------------
(* Server list, finished list, ping list *)

\* gFinishedList is read by addressFinished only, and querySingleServer erases
\* one entry of an address: the model keeps how often each address is in it.
Addresses == 0..(NumServers + 1 + NumMasters)
EmptyFinishedList == [a \in Addresses |-> 0]
FinishedPush(list, addr) == [list EXCEPT ![addr] = @ + 1]
FinishedErase(list, addr) == [list EXCEPT ![addr] = IF @ > 0 THEN @ - 1 ELSE 0]

addressFinished(s, addr) == s.gFinishedList[addr] > 0

findPingEntry(v, addr) == FindAddr(v, addr) - 1

findServerInfo(s, addr) == FindAddr(s.gServerList, addr)

\* findOrCreateServerInfo without the search for an existing ServerInfo
createServerInfo(s, addr) ==
    [s EXCEPT !.gServerList = Append(@, NewServerInfo(addr))]

findOrCreateServerInfo(s, addr) ==
    IF findServerInfo(s, addr) # 0 THEN s
    ELSE [s EXCEPT !.gServerList = Append(@, NewServerInfo(addr))]

\* for (i = 0; i < size; i++) if (match) erase(i);
RECURSIVE RemoveFrom(_, _, _)
RemoveFrom(list, addr, i) ==
    IF i > Len(list) THEN list
    ELSE IF list[i].address = addr THEN RemoveFrom(Erase(list, i), addr, i + 1)
    ELSE RemoveFrom(list, addr, i + 1)

removeServerInfo(s, addr) ==
    [s EXCEPT !.gServerList = RemoveFrom(@, addr, 1)]

\* si->status = value, for the ServerInfo findServerInfo returns (if any)
\* si->status |= value in the place of si->status = value
SetStatusOr(s, addr, value) ==
    LET j == findServerInfo(s, addr) IN
    IF j = 0 THEN s ELSE [s EXCEPT !.gServerList[j].status = @ \cup value]

SetStatus(s, addr, value) ==
    LET j == findServerInfo(s, addr) IN
    IF j = 0 THEN s ELSE [s EXCEPT !.gServerList[j].status = value]

\* pushPingRequest without the test of the finished list
pushPingRequestUnchecked(s, addr) ==
    [s EXCEPT
        !.gPingList = Append(@, NewPing(addr, s.gPingSession, gPingRetryCount, FALSE, FALSE)),
        !.gServerPingCount = @ + 1]

pushPingRequest(s, addr) ==
    IF addressFinished(s, addr) THEN s
    ELSE [s EXCEPT
            !.gPingList = Append(@, NewPing(addr, s.gPingSession, gPingRetryCount, FALSE, FALSE)),
            !.gServerPingCount = @ + 1]

pushPingBroadcast(s, addr) ==
    IF addressFinished(s, addr) THEN s
    ELSE [s EXCEPT
            !.gPingList = Append(@, NewPing(addr, s.gPingSession, 1, TRUE, TRUE))]

countPingRequests(s) ==
    Len(s.gPingList) - Cardinality({j \in 1..Len(s.gPingList) : s.gPingList[j].broadcast})

RECURSIVE PushFavorites(_, _, _)
PushFavorites(s, favs, i) ==
    IF i > Len(favs) THEN s
    ELSE LET s1 == findOrCreateServerInfo(s, favs[i])
             j == findServerInfo(s1, favs[i])
             s2 == [s1 EXCEPT !.gServerList[j].isFavorite = TRUE]
         IN PushFavorites(pushPingRequest(s2, favs[i]), favs, i + 1)

pushServerFavorites(s) == PushFavorites(s, favoriteCfg, 1)

\* clearServerList that leaves the Pings of the old session queued
clearServerListKeepingPings(s, clearServerInfo) ==
    [s EXCEPT
        !.gPacketStatusList = <<>>,
        !.gServerList = IF clearServerInfo THEN <<>> ELSE @,
        !.gFinishedList = EmptyFinishedList,
        !.gServerPingCount = 0,
        !.gServerQueryCount = 0,
        !.gPingSession = @ + 1]

clearServerList(s, clearServerInfo) ==
    [s EXCEPT
        !.gPacketStatusList = <<>>,
        !.gServerList = IF clearServerInfo THEN <<>> ELSE @,
        !.gFinishedList = EmptyFinishedList,
        !.gPingList = <<>>,
        !.gQueryList = <<>>,
        !.gServerPingCount = 0,
        !.gServerQueryCount = 0,
        !.gPingSession = @ + 1]

\* getMasterServerList: the valid entries of Server::Master0..9
getMasterServerList == masterCfg

pickMasterServerFound(s) == Len(s.gMasterServerList) # 0

\* index = index < serverCount - 1 ? index + 1 : 0, from currentTime % serverCount
RECURSIVE RegionScan(_, _, _, _)
RegionScan(list, region, index, i) ==
    IF i >= Len(list) THEN index
    ELSE IF list[index + 1].region = region THEN index
    ELSE RegionScan(list, region, IF index < Len(list) - 1 THEN index + 1 ELSE 0, i + 1)

\* pickMasterServer that settles for the master at currentTime % serverCount
pickMasterServerAnyRegion(s) ==
    LET reset == [s.gMasterServerPing EXCEPT
                    !.time = 0, !.key = 0,
                    !.tryCount = gMasterServerRetryCount,
                    !.session = s.gPingSession]
        serverCount == Len(s.gMasterServerList)
    IN IF serverCount = 0
       THEN [s EXCEPT !.gMasterServerPing = reset]
       ELSE [s EXCEPT !.gMasterServerPing =
                [reset EXCEPT !.address =
                    s.gMasterServerList[(now % serverCount) + 1].address]]

pickMasterServer(s) ==
    LET reset == [s.gMasterServerPing EXCEPT
                    !.time = 0, !.key = 0,
                    !.tryCount = gMasterServerRetryCount,
                    !.session = s.gPingSession]
        serverCount == Len(s.gMasterServerList)
        index == RegionScan(s.gMasterServerList, prefRegion, now % serverCount, 0)
    IN IF serverCount = 0
       THEN [s EXCEPT !.gMasterServerPing = reset]
       ELSE [s EXCEPT !.gMasterServerPing =
                [reset EXCEPT !.address = s.gMasterServerList[index + 1].address]]

---------------------------------------------------------------------------
(* Progress *)

updateQueryProgress(s) ==
    IF Len(s.gPingList) # 0 THEN s
    ELSE Emit(s, "query", "Querying servers", Len(s.gQueryList), s.gServerQueryCount)

updatePingProgress(s) ==
    IF Len(s.gPingList) = 0 THEN updateQueryProgress(s)
    ELSE Emit(s, "ping",
              IF countPingRequests(s) = 0 THEN "Waiting for lan servers..."
              ELSE "Pinging servers",
              countPingRequests(s), s.gServerPingCount)

doneMessage(foundCount) ==
    IF foundCount = 0 THEN "No servers found."
    ELSE IF foundCount = 1 THEN "One server found."
    ELSE "servers found."

---------------------------------------------------------------------------
(* Event processing *)

\* a ping loop without the flight limit
pingSlotUnlimited(s, i) == i < Len(s.gPingList)

\* i < gPingList.size() && i < gMaxConcurrentPings
pingSlot(s, i) == i < Len(s.gPingList) /\ i < gMaxConcurrentPings

\* i < gQueryList.size() && i < gMaxConcurrentQueries
querySlot(s, i) == i < Len(s.gQueryList) /\ i < gMaxConcurrentQueries

\* a query phase that starts while pings remain
queryPhaseEarly(s, waitingForMaster) == ~waitingForMaster

\* if (!gPingList.size() && !waitingForMaster)
queryPhase(s, waitingForMaster) == Len(s.gPingList) = 0 /\ ~waitingForMaster

\* the ping loop of processPingsAndQueries; i is the loop index (from 0)
RECURSIVE PingLoop(_, _, _)
PingLoop(s, i, waitingForMaster) ==
    IF ~pingSlot(s, i) THEN s
    ELSE LET p == s.gPingList[i + 1] IN
         IF p.time + gPingTimeout < now
         THEN IF p.tryCount = 0
              THEN LET s1 == SetStatus(s, p.address, {"TimedOut"})
                       s2 == [s1 EXCEPT !.gFinishedList = FinishedPush(@, p.address),
                                        !.gPingList = Erase(@, i + 1)]
                   IN PingLoop(IF ~waitingForMaster THEN updatePingProgress(s2) ELSE s2,
                               i, waitingForMaster)
              ELSE LET s1 == [s EXCEPT !.gPingList[i + 1] =
                                          [p EXCEPT !.tryCount = @ - 1, !.time = now,
                                                    !.key = s.gKey],
                                       !.gKey = @ + 1]
                   IN PingLoop(Send(s1, Packet("GamePingRequest", p.address,
                                               KeyField(p.session, s.gKey), 0)),
                               i + 1, waitingForMaster)
         ELSE PingLoop(s, i + 1, waitingForMaster)

\* the query loop of processPingsAndQueries
RECURSIVE QueryLoop(_, _)
QueryLoop(s, i) ==
    IF ~querySlot(s, i) THEN s
    ELSE LET p == s.gQueryList[i + 1]
             si == findServerInfo(s, p.address)
         IN
         IF p.time + gPingTimeout < now
         THEN IF si = 0
              THEN QueryLoop([s EXCEPT !.gQueryList = Erase(@, i + 1)], i)
              ELSE IF p.tryCount = 0
              THEN QueryLoop([s EXCEPT !.gServerList[si].status = {"TimedOut"},
                                       !.gQueryList = Erase(@, i + 1)], i)
              ELSE LET s1 == [s EXCEPT !.gQueryList[i + 1] =
                                          [p EXCEPT !.tryCount = @ - 1, !.time = now,
                                                    !.key = s.gKey],
                                       !.gKey = @ + 1,
                                       !.gServerList[si].status = @ \cup {"Querying"}]
                   IN QueryLoop(Send(s1, Packet("GameInfoRequest", p.address,
                                                KeyField(p.session, s.gKey), 0)),
                                i + 1)
         ELSE QueryLoop(s, i + 1)

\* processPingsAndQueries without the test of the session
processPingsAndQueriesAnySession(s, session, schedule) ==
    LET waitingForMaster == /\ s.sActiveFilter.type = "Normal"
                            /\ ~s.gGotFirstListPacket
                            /\ s.sgServerQueryActive
        s1 == PingLoop(s, 0, waitingForMaster)
        s2 == IF queryPhase(s1, waitingForMaster) THEN QueryLoop(s1, 0) ELSE s1
    IN IF Len(s2.gPingList) # 0 \/ Len(s2.gQueryList) # 0 \/ waitingForMaster
       THEN IF schedule
            THEN Post(s2, SimEvent("ProcessPingEvent", session, now + 1))
            ELSE s2
       ELSE Emit(s2, "done", doneMessage(Len(s2.gServerList)), Len(s2.gServerList), 0)

processPingsAndQueries(s, session, schedule) ==
    IF session # s.gPingSession THEN s
    ELSE
    LET waitingForMaster == /\ s.sActiveFilter.type = "Normal"
                            /\ ~s.gGotFirstListPacket
                            /\ s.sgServerQueryActive
        s1 == PingLoop(s, 0, waitingForMaster)
        s2 == IF queryPhase(s1, waitingForMaster) THEN QueryLoop(s1, 0) ELSE s1
    IN IF Len(s2.gPingList) # 0 \/ Len(s2.gQueryList) # 0 \/ waitingForMaster
       THEN IF schedule
            THEN Post(s2, SimEvent("ProcessPingEvent", session, now + 1))
            ELSE s2
       ELSE Emit(s2, "done", doneMessage(Len(s2.gServerList)), Len(s2.gServerList), 0)

\* the MasterServerListRequest processMasterServerQuery writes
masterServerQuerySend(s) ==
    LET mp == [s.gMasterServerPing EXCEPT !.tryCount = @ - 1, !.time = now, !.key = s.gKey]
        s1 == [s EXCEPT !.gMasterServerPing = mp, !.gKey = @ + 1]
        s2 == Send(s1, Packet("MasterServerListRequest", mp.address,
                              KeyField(mp.session, mp.key), 255))
    IN IF mp.tryCount < gMasterServerRetryCount - 1
       THEN Emit(s2, "update", "Retrying the master server...", 0, 0)
       ELSE s2

\* the time out branch: remove the master from the list, pick a new one
masterServerTimedOut(s) ==
    LET j == FindAddr(s.gMasterServerList, s.gMasterServerPing.address)
        s1 == IF j = 0 THEN s ELSE [s EXCEPT !.gMasterServerList = Erase(@, j)]
        s2 == pickMasterServer(s1)
    IN IF pickMasterServerFound(s1)
       THEN Emit(s2, "update", "Switching master servers...", 0, 0)
       ELSE s2

\* a request with every check, not only once the time out has passed
masterRequestAlwaysDue(s) == TRUE

\* if (gMasterServerPing.time + gMasterServerTimeout < time)
masterRequestDue(s) == s.gMasterServerPing.time + gMasterServerTimeout < now

processMasterServerQuery(s, session) ==
    IF session # s.gPingSession \/ ~s.sgServerQueryActive THEN s
    ELSE IF s.gGotFirstListPacket THEN s
    ELSE
    LET due == masterRequestDue(s)
        timedOut == due /\ s.gMasterServerPing.tryCount = 0
        keepGoing == IF timedOut THEN pickMasterServerFound(masterServerTimedOut(s)) ELSE TRUE
        s1 == IF timedOut THEN masterServerTimedOut(s) ELSE s
        s2 == IF due /\ keepGoing THEN masterServerQuerySend(s1) ELSE s1
    IN IF keepGoing
       THEN Post(s2, SimEvent("ProcessMasterQueryEvent", session, now + 1))
       ELSE processPingsAndQueries(s2, s2.gPingSession, TRUE)

\* for (i = 0; i < size; i++): erase(i) on a time out, a re-request otherwise
RECURSIVE PacketLoop(_, _, _)
PacketLoop(s, session, i) ==
    IF ~(i < Len(s.gPacketStatusList)) THEN s
    ELSE LET p == s.gPacketStatusList[i + 1] IN
         IF p.time + gPacketTimeout < now
         THEN IF p.tryCount = 0
              THEN PacketLoop([s EXCEPT !.gPacketStatusList = Erase(@, i + 1)],
                              session, i + 1)
              ELSE LET s1 == [s EXCEPT !.gPacketStatusList[i + 1] =
                                          [p EXCEPT !.tryCount = @ - 1, !.time = now,
                                                    !.key = s.gKey],
                                       !.gKey = @ + 1]
                   IN PacketLoop(Send(s1, Packet("MasterServerListRequest",
                                                 s.gMasterServerQueryAddress,
                                                 KeyField(session, s.gKey), p.index)
                                              @@ [gameType |-> 0, missionType |-> 0,
                                                  minPlayers |-> 0, maxPlayers |-> 0,
                                                  regionMask |-> 0, version |-> 0,
                                                  filterFlags |-> 0, maxBots |-> 0,
                                                  minCPU |-> 0, buddyCount |-> 0]),
                                 session, i + 1)
         ELSE PacketLoop(s, session, i + 1)

processServerListPackets(s, session) ==
    IF session # s.gPingSession \/ ~s.sgServerQueryActive THEN s
    ELSE LET s1 == PacketLoop(s, session, 0) IN
         IF Len(s1.gPacketStatusList) # 0
         THEN Post(s1, SimEvent("ProcessPacketEvent", session, now + 30))
         ELSE processPingsAndQueries(s1, s1.gPingSession, TRUE)

---------------------------------------------------------------------------
(* Strings *)

\* the strings the model uses for game and mission types, in lower case
Lower(str) ==
    CASE str = "CTF" -> "ctf"
      [] str = "ANY" -> "any"
      [] str = "DM" -> "dm"
      [] str = "KOH" -> "koh"
      [] str = "SP" -> "sp"
      [] str = "SinglePlayer" -> "singleplayer"
      [] str = "MultiPlayer" -> "multiplayer"
      [] OTHER -> str

\* dStricmp(a, b) == 0
dStricmpEqual(a, b) == Lower(a) = Lower(b)

---------------------------------------------------------------------------
(* Packet handlers *)

\* the PacketStatus entries for every index in [0, packetTotal) but packetIndex
RECURSIVE FillPacketStatus(_, _, _, _, _)
FillPacketStatus(list, i, packetIndex, packetTotal, key) ==
    IF i >= packetTotal THEN list
    ELSE FillPacketStatus(IF i # packetIndex THEN Append(list, PacketStatus(i, key, now))
                          ELSE list,
                          i + 1, packetIndex, packetTotal, key)

FindIndex(list, packetIndex) ==
    IF \E j \in 1..Len(list) : list[j].index = packetIndex
    THEN CHOOSE j \in 1..Len(list) :
            /\ list[j].index = packetIndex
            /\ \A k \in 1..(j - 1) : list[k].index # packetIndex
    ELSE 0

RECURSIVE PushAll(_, _, _)
PushAll(s, servers, i) ==
    IF i > Len(servers) THEN s
    ELSE PushAll(pushPingRequest(s, servers[i]), servers, i + 1)

\* the key of the master request, whatever the packet status list holds
masterListPacketKeyOfRequest(s, packetIndex) == s.gMasterServerPing.key

\* the key a list response must echo
masterListPacketKey(s, packetIndex) ==
    IF s.gGotFirstListPacket /\ FindIndex(s.gPacketStatusList, packetIndex) # 0
    THEN s.gPacketStatusList[FindIndex(s.gPacketStatusList, packetIndex)].key
    ELSE s.gMasterServerPing.key

handleMasterServerListResponse(s, pkt) ==
    IF KeyField(s.gPingSession, masterListPacketKey(s, pkt.packetIndex)) # pkt.key THEN s
    ELSE
    LET s1 == PushAll(s, pkt.servers, 1) IN
    IF ~s1.gGotFirstListPacket
    THEN processServerListPackets(
            [s1 EXCEPT !.gGotFirstListPacket = TRUE,
                       !.gMasterServerQueryAddress = s1.gMasterServerPing.address,
                       !.gPacketStatusList =
                           FillPacketStatus(@, 0, pkt.packetIndex, pkt.packetTotal,
                                            s1.gMasterServerPing.key)],
            s1.gPingSession)
    ELSE LET j == FindIndex(s1.gPacketStatusList, pkt.packetIndex) IN
         IF j = 0 THEN s1 ELSE [s1 EXCEPT !.gPacketStatusList = Erase(@, j)]

\* pingRejected that leaves the Ping in pingList
pingRejectedKept(s, address, index, waitingForMaster) ==
    LET s1 == [s EXCEPT !.gFinishedList = FinishedPush(@, address)]
    IN IF ~waitingForMaster THEN updatePingProgress(s1) ELSE s1

\* the four rejections of handleGamePingResponse share this tail
pingRejected(s, address, index, waitingForMaster) ==
    LET s1 == [s EXCEPT !.gFinishedList = FinishedPush(@, address),
                        !.gPingList = Erase(@, index + 1)]
    IN IF ~waitingForMaster THEN updatePingProgress(s1) ELSE s1

\* handleGamePingResponse that promotes every answer from a pinged address
handleGamePingResponseUnchecked(s, address, pkt) ==
    LET index == findPingEntry(s.gPingList, address) IN
    IF index = -1 THEN s
    ELSE LET s1 == findOrCreateServerInfo(s, address)
         IN [s1 EXCEPT !.gFinishedList = FinishedPush(@, address),
                       !.gQueryList = Append(@, [s.gPingList[index + 1] EXCEPT
                                                   !.key = 0, !.time = 0,
                                                   !.tryCount = gQueryRetryCount]),
                       !.gPingList = Erase(@, index + 1)]

handleGamePingResponse(s, address, pkt) ==
    IF Len(s.gPingList) = 0 THEN s
    ELSE
    LET index == findPingEntry(s.gPingList, address) IN
    IF index = -1
    THEN IF ~addressFinished(s, address)
         THEN LET s1 == pushPingRequest(s, address)
                  j == findPingEntry(s1.gPingList, address)
              IN [s1 EXCEPT !.gPingList[j + 1].isLocal = TRUE]
         ELSE s
    ELSE
    LET p == s.gPingList[index + 1]
        si == findServerInfo(s, address)
        applyFilter == IF s.sActiveFilter.type \in {"Normal", "OfflineFiltered"}
                       THEN (IF si # 0 THEN "Updating" \notin s.gServerList[si].status
                             ELSE TRUE)
                       ELSE FALSE
        waitingForMaster == s.sActiveFilter.type = "Normal" /\ ~s.gGotFirstListPacket
        ping == IF now > p.time THEN now - p.time ELSE 0
    IN
    IF KeyField(p.session, p.key) # pkt.key THEN s
    ELSE IF pkt.versionTag # versionString
    THEN pingRejected(SetStatus(s, address, {"TimedOut"}), address, index, waitingForMaster)
    ELSE IF pkt.protocolCurrent < MinRequiredProtocolVersion
    THEN pingRejected(SetStatus(s, address, {"TimedOut"}), address, index, waitingForMaster)
    ELSE IF CurrentProtocolVersion < pkt.protocolMin
    THEN pingRejected(SetStatus(s, address, {"TimedOut"}), address, index, waitingForMaster)
    ELSE IF applyFilter /\ s.sActiveFilter.maxPing > 0 /\ ping > s.sActiveFilter.maxPing
    THEN pingRejected(IF si # 0 THEN removeServerInfo(s, address) ELSE s,
                      address, index, waitingForMaster)
    ELSE IF pkt.buildVersion # VersionNumber
    THEN pingRejected(IF si # 0 THEN removeServerInfo(s, address) ELSE s,
                      address, index, waitingForMaster)
    ELSE
    LET s1 == findOrCreateServerInfo(s, address)
        j == findServerInfo(s1, address)
        s2 == [s1 EXCEPT !.gServerList[j].isLocal = p.isLocal,
                         !.gFinishedList = FinishedPush(@, address),
                         !.gQueryList = Append(@, [p EXCEPT !.key = 0, !.time = 0,
                                                            !.tryCount = gQueryRetryCount]),
                         !.gServerQueryCount = @ + 1,
                         !.gPingList = Erase(@, index + 1)]
    IN IF ~waitingForMaster THEN updatePingProgress(s2) ELSE s2

\* the filter rules of handleGameInfoResponse, in the order of the code; each
\* is tested on the ServerInfo as updated so far
infoGameTypeChanged(info, pkt) ==
    info.gameType = "NULL" \/ ~dStricmpEqual(info.gameType, pkt.gameType)

infoMissionTypeChanged(info, pkt) ==
    info.missionType = "NULL" \/ info.missionType # pkt.missionType

infoRejectedBy(info, pkt, f, applyFilter) ==
    IF /\ infoGameTypeChanged(info, pkt)
       /\ applyFilter
       /\ ~dStricmpEqual(f.gameType, "any")
       /\ ~dStricmpEqual(pkt.gameType, f.gameType)
    THEN "gameType"
    ELSE IF /\ infoMissionTypeChanged(info, pkt)
            /\ applyFilter
            /\ ~dStricmpEqual(f.missionType, "any")
            /\ ~dStricmpEqual(pkt.missionType, f.missionType)
    THEN "missionType"
    ELSE IF applyFilter /\ "Dedicated" \in f.filterFlags /\ "Dedicated" \notin pkt.status
    THEN "dedicated"
    ELSE IF applyFilter /\ "NotPassworded" \in f.filterFlags /\ "Passworded" \in pkt.status
    THEN "password"
    ELSE IF applyFilter /\ (pkt.numPlayers < f.minPlayers \/ pkt.numPlayers > f.maxPlayers)
    THEN "players"
    ELSE IF applyFilter /\ pkt.numBots > f.maxBots
    THEN "bots"
    ELSE IF applyFilter /\ pkt.cpuSpeed < f.minCPU
    THEN "cpu"
    ELSE "none"

\* dStricmp on sActiveFilter.gameType or missionType while it is still NULL
infoResponseReadsNull(s, address, pkt) ==
    LET index == findPingEntry(s.gQueryList, address)
        si == findServerInfo(s, address)
    IN /\ Len(s.gQueryList) # 0
       /\ index # -1
       /\ si # 0
       /\ "Updating" \notin s.gServerList[si].status
       /\ s.sActiveFilter.type \in {"Normal", "OfflineFiltered"}
       /\ \/ /\ infoGameTypeChanged(s.gServerList[si], pkt)
             /\ s.sActiveFilter.gameType = "NULL"
          \/ /\ infoMissionTypeChanged(s.gServerList[si], pkt)
             /\ s.sActiveFilter.missionType = "NULL"

handleGameInfoResponse(s, address, pkt) ==
    IF Len(s.gQueryList) = 0 THEN s
    ELSE
    LET index == findPingEntry(s.gQueryList, address) IN
    IF index = -1 THEN s
    ELSE
    LET s1 == updateQueryProgress([s EXCEPT !.gQueryList = Erase(@, index + 1)])
        si == findServerInfo(s1, address)
    IN
    IF si = 0 THEN s1
    ELSE
    LET info == s1.gServerList[si]
        isUpdate == "Updating" \in info.status
        applyFilter == ~isUpdate /\ s1.sActiveFilter.type \in {"Normal", "OfflineFiltered"}
        rejectedBy == infoRejectedBy(info, pkt, s1.sActiveFilter, applyFilter)
    IN
    IF rejectedBy # "none"
    THEN removeServerInfo(s1, address)
    ELSE [s1 EXCEPT !.gServerList[si] =
            [info EXCEPT
                !.gameType = IF infoGameTypeChanged(info, pkt) THEN pkt.gameType ELSE @,
                !.missionType = pkt.missionType,
                !.status = pkt.status \cup {"Responded"}]]

---------------------------------------------------------------------------
(* Request handlers of the hosting side *)

\* a server on the current version
PingOk ==
    [versionTag |-> versionString, protocolCurrent |-> CurrentProtocolVersion,
     protocolMin |-> MinRequiredProtocolVersion, buildVersion |-> VersionNumber]

\* a response: the type, the flags and the key of the request, then the body
ServerReply(type, address, key, flags, body) ==
    [type |-> type, to |-> address, key |-> key, page |-> 0, flags |-> flags] @@ body

handleGamePingRequest(s, cfg, address, key, flags) ==
    IF ~cfg.allowConnections THEN s
    ELSE IF dStricmpEqual(cfg.serverType, "SinglePlayer") THEN s
    ELSE IF "OfflineQuery" \in flags THEN s
    ELSE IF cfg.playerCount >= cfg.maxPlayers - cfg.privateSlots THEN s
    ELSE Send(s, ServerReply("GamePingResponse", address, key, flags, PingOk))

\* the U8 status the info responses carry
serverStatus(cfg) ==
    (IF cfg.dedicated THEN {"Dedicated"} ELSE {})
        \cup (IF cfg.passworded THEN {"Passworded"} ELSE {})

handleGameInfoRequest(s, cfg, address, key, flags) ==
    IF ~cfg.allowConnections THEN s
    ELSE IF "OfflineQuery" \in flags THEN s
    ELSE Send(s, ServerReply("GameInfoResponse", address, key, flags,
                             [gameType |-> cfg.gameType,
                              missionType |-> cfg.missionType,
                              status |-> serverStatus(cfg),
                              numPlayers |-> cfg.playerCount % Pow2(8),
                              maxPlayers |-> cfg.maxPlayers % Pow2(8),
                              numBots |-> 0,
                              cpuSpeed |-> 2400]))

\* for (; temp && temp8 < playerCount; temp8++) { write(dAtoi(temp));
\* temp = dStrtok(NULL, "\t"); temp8++; }: tokens[i] is temp, a GUID as
\* dAtoi reads it, and temp8 is a U8
RECURSIVE GuidLoop(_, _, _, _, _)
GuidLoop(tokens, i, temp8, playerCount, written) ==
    IF i <= Len(tokens) /\ temp8 < playerCount
    THEN GuidLoop(tokens, i + 1, (((temp8 + 1) % Pow2(8)) + 1) % Pow2(8), playerCount,
                  Append(written, tokens[i]))
    ELSE [temp8 |-> temp8, written |-> written]

\* for (; temp8 < playerCount; temp8++) write(U32(0));
RECURSIVE GuidPad(_, _, _)
GuidPad(temp8, playerCount, written) ==
    IF temp8 < playerCount THEN GuidPad(temp8 + 1, playerCount, Append(written, 0))
    ELSE written

masterInfoGuids(cfg) ==
    LET playerCount == cfg.playerCount % Pow2(8)
        l == GuidLoop(cfg.guidList, 1, 0, playerCount, <<>>)
    IN GuidPad(l.temp8, playerCount, l.written)

handleGameMasterInfoRequest(s, cfg, address, key, flags) ==
    IF ~cfg.allowConnections THEN s
    ELSE Send(s, ServerReply("GameMasterInfoResponse", address, key, flags,
                             [gameType |-> cfg.gameType,
                              missionType |-> cfg.missionType,
                              maxPlayers |-> (cfg.maxPlayers - cfg.privateSlots) % Pow2(8),
                              buildVersion |-> VersionNumber,
                              status |-> serverStatus(cfg),
                              playerCount |-> cfg.playerCount % Pow2(8),
                              guids |-> masterInfoGuids(cfg)]))

---------------------------------------------------------------------------
(* Heartbeat *)

RECURSIVE HeartbeatTo(_, _, _)
HeartbeatTo(s, masterList, i) ==
    IF i > Len(masterList) THEN s
    ELSE HeartbeatTo(Send(s, Packet("GameHeartbeat", masterList[i].address,
                                    KeyField(s.gPingSession, 0), 0)),
                     masterList, i + 1)

sendHeartbeat(s) == HeartbeatTo(s, getMasterServerList, 1)

\* processHeartbeat without the test of the sequence number
processHeartbeatUnchecked(s, seq, currentTime) ==
    Post(sendHeartbeat(s),
         SimEvent("HeartbeatEvent", seq, currentTime + gHeartbeatInterval))

\* currentTime is Sim::getCurrentTime(): the time of the event being
\* processed, or the time the Sim was advanced to
processHeartbeat(s, seq, currentTime) ==
    IF seq # s.gHeartbeatSeq THEN s
    ELSE Post(sendHeartbeat(s),
              SimEvent("HeartbeatEvent", seq, currentTime + gHeartbeatInterval))

\* ConsoleFunction(startHeartbeat)
startHeartbeat(s, cfg) ==
    IF cfg.authenticated
    THEN LET s1 == [s EXCEPT !.gHeartbeatSeq = @ + 1]
         IN processHeartbeat(s1, s1.gHeartbeatSeq, now)
    ELSE s

\* ConsoleFunction(stopHeartbeat)
stopHeartbeat(s) == [s EXCEPT !.gHeartbeatSeq = @ + 1]

---------------------------------------------------------------------------
(* Public query methods *)

\* ServerFilter::ServerFilter(), sActiveFilter being a static object
InitialFilter ==
    [type |-> "Normal", gameType |-> "NULL", missionType |-> "NULL", queryFlags |-> 0,
     minPlayers |-> 0, maxPlayers |-> 255, maxBots |-> 16, maxPing |-> 0,
     filterFlags |-> {}, minCPU |-> 0, buddyCount |-> 0]

queryLanServers(s, a, useFilters) ==
    LET s1 == pushServerFavorites([s EXCEPT !.sgServerQueryActive = TRUE])
        f == s1.sActiveFilter
        s2 == [s1 EXCEPT !.sActiveFilter =
                 [f EXCEPT
                    !.type = IF useFilters THEN "OfflineFiltered" ELSE "Offline",
                    !.gameType = IF @ = "NULL" \/ ~dStricmpEqual(@, a.gameType)
                                 THEN a.gameType ELSE @,
                    !.missionType = IF @ = "NULL" \/ ~dStricmpEqual(@, a.missionType)
                                    THEN a.missionType ELSE @,
                    !.queryFlags = 0,
                    !.minPlayers = a.minPlayers,
                    !.maxPlayers = a.maxPlayers,
                    !.maxBots = a.maxBots,
                    !.maxPing = a.maxPing,
                    !.minCPU = a.minCPU,
                    !.filterFlags = a.filterFlags]]
        s3 == pushPingBroadcast(s2, BroadcastIP)
    IN Emit(s3, "start", "Querying LAN servers", 0, 0)

\* ConsoleFunction(queryLanServers)
consoleQueryLanServers(s, a, useFilters) ==
    queryLanServers(clearServerList(s, TRUE), a, useFilters)

queryMasterServer(s, a, buddyCount) ==
    LET s1 == Emit([s EXCEPT !.gGotFirstListPacket = FALSE,
                             !.sgServerQueryActive = TRUE],
                   "start", "Querying master server", 0, 0)
        f == s1.sActiveFilter
        s2 == IF buddyCount = 0
              THEN queryLanServers(
                     [s1 EXCEPT !.sActiveFilter =
                        [f EXCEPT
                           !.type = "Normal",
                           !.gameType = IF @ = "NULL" \/ @ # a.gameType
                                        THEN a.gameType ELSE @,
                           !.missionType = IF @ = "NULL" \/ @ # a.missionType
                                           THEN a.missionType ELSE @,
                           !.queryFlags = a.flags,
                           !.minPlayers = a.minPlayers,
                           !.maxPlayers = a.maxPlayers,
                           !.maxBots = a.maxBots,
                           !.maxPing = a.maxPing,
                           !.minCPU = a.minCPU,
                           !.filterFlags = a.filterFlags,
                           !.buddyCount = buddyCount]],
                     a, FALSE)
              ELSE clearServerList(
                     [s1 EXCEPT !.sActiveFilter =
                        [f EXCEPT !.type = "Buddy", !.buddyCount = buddyCount]],
                     TRUE)
        s3 == [s2 EXCEPT !.gMasterServerList = getMasterServerList,
                         !.gMasterServerPing =
                            [@ EXCEPT !.time = 0, !.tryCount = gMasterServerRetryCount]]
        s4 == pickMasterServer(s3)
    IN IF ~pickMasterServerFound(s3) THEN s4
       ELSE processMasterServerQuery(s4, s4.gPingSession)

\* ConsoleFunction(queryMasterServer)
consoleQueryMasterServer(s, a) ==
    queryMasterServer(clearServerList(s, TRUE), a, 0)

queryFavoriteServers(s) ==
    LET s1 == clearServerList([s EXCEPT !.sgServerQueryActive = TRUE], TRUE)
        s2 == pushServerFavorites([s1 EXCEPT !.sActiveFilter.type = "Favorites"])
        s3 == Emit(s2, "start", "Query favorites...", 0, 0)
    IN processPingsAndQueries(s3, s3.gPingSession, TRUE)

querySingleServer(s, addr) ==
    LET s1 == SetStatus([s EXCEPT !.sgServerQueryActive = TRUE], addr, {"New", "Updating"})
        s2 == [s1 EXCEPT !.gFinishedList = FinishedErase(@, addr)]
        s3 == Emit(s2, "start", "Refreshing server...", 0, 0)
        s4 == pushPingRequest([s3 EXCEPT !.gServerPingCount = 0, !.gServerQueryCount = 0],
                              addr)
    IN processPingsAndQueries(s4, s4.gPingSession, TRUE)

\* while (list.size()) { si = findServerInfo(list[0].address); ...; erase(0) }
RECURSIVE CancelList(_, _)
CancelList(servers, list) ==
    IF Len(list) = 0 THEN servers
    ELSE LET j == FindAddr(servers, list[1].address) IN
         CancelList(IF j # 0 /\ "Responded" \notin servers[j].status
                    THEN [servers EXCEPT ![j].status = {"TimedOut"}]
                    ELSE servers,
                    Tail(list))

cancelServerQuery(s) ==
    IF ~s.sgServerQueryActive THEN s
    ELSE [s EXCEPT
            !.gPacketStatusList = <<>>,
            !.gServerList = CancelList(CancelList(@, s.gPingList), s.gQueryList),
            !.gPingList = <<>>,
            !.gQueryList = <<>>,
            !.sgServerQueryActive = FALSE]

\* stopServerQuery that drops the pings without recording them as finished
stopServerQueryForgetting(s) ==
    IF ~s.sgServerQueryActive THEN s
    ELSE IF Len(s.gPingList) # 0
    THEN [s EXCEPT !.gPacketStatusList = <<>>, !.gPingList = <<>>]
    ELSE cancelServerQuery([s EXCEPT !.gPacketStatusList = <<>>])

stopServerQuery(s) ==
    IF ~s.sgServerQueryActive THEN s
    ELSE IF Len(s.gPingList) # 0
    THEN [s EXCEPT
            !.gPacketStatusList = <<>>,
            !.gFinishedList =
                [a \in Addresses |->
                    @[a] + Cardinality({j \in 1..Len(s.gPingList) :
                                          s.gPingList[j].address = a})],
            !.gPingList = <<>>]
    ELSE cancelServerQuery([s EXCEPT !.gPacketStatusList = <<>>])

---------------------------------------------------------------------------
(* Inputs *)

\* the filter arguments of the console query functions
FilterArgs ==
    {[gameType |-> "CTF", missionType |-> "any", flags |-> 0, minPlayers |-> 0,
      maxPlayers |-> 255, maxBots |-> 16, maxPing |-> 0, minCPU |-> 0,
      filterFlags |-> {}]}

\* the bodies of the GamePingResponse packets a server answers with
PingResponseBodies ==
    {[versionTag |-> "VER1", protocolCurrent |-> CurrentProtocolVersion,
      protocolMin |-> MinRequiredProtocolVersion, buildVersion |-> VersionNumber],
     [versionTag |-> "VER2", protocolCurrent |-> CurrentProtocolVersion,
      protocolMin |-> MinRequiredProtocolVersion, buildVersion |-> VersionNumber],
     [versionTag |-> "VER1", protocolCurrent |-> CurrentProtocolVersion,
      protocolMin |-> MinRequiredProtocolVersion, buildVersion |-> VersionNumber + 1]}

\* the bodies of the GameInfoResponse packets a server answers with
InfoResponseBodies ==
    {[gameType |-> g, missionType |-> "any", status |-> {}, numPlayers |-> 3,
      maxPlayers |-> 16, numBots |-> 0, cpuSpeed |-> 2400] : g \in {"CTF", "DM"}}

\* SpecFilter: a filter every rule of which can reject, and one that rejects
\* nothing
WideFilterArgs ==
    {[gameType |-> "CTF", missionType |-> "KOH", flags |-> 0, minPlayers |-> 2,
      maxPlayers |-> 4, maxBots |-> 1, maxPing |-> 500, minCPU |-> 1000,
      filterFlags |-> {"Dedicated", "NotPassworded"}],
     [gameType |-> "ANY", missionType |-> "any", flags |-> 0, minPlayers |-> 0,
      maxPlayers |-> 255, maxBots |-> 16, maxPing |-> 0, minCPU |-> 0,
      filterFlags |-> {}]}

\* SpecFilter: info responses on either side of every rule of the first filter
WideInfoResponseBodies ==
    {[gameType |-> g, missionType |-> m, status |-> st, numPlayers |-> np,
      maxPlayers |-> 16, numBots |-> nb, cpuSpeed |-> cpu] :
        g \in {"ctf", "DM"}, m \in {"koh", "SP"},
        st \in {{"Dedicated"}, {}, {"Dedicated", "Passworded"}},
        np \in {1, 3, 5}, nb \in {0, 2}, cpu \in {500, 2400}}

\* the server lists of the MasterServerListResponse packets
ServerLists == {<<1>>, <<1, 1>>}

\* a list packet that names every server once
FlightList == [j \in 1..NumServers |-> j]

\* the keys a reply of that type from that address can echo
EchoKeys(type, from) ==
    {r.key : r \in {q \in wire : q.type = type /\ q.to \in {from, BroadcastIP}}}

MasterEchoKeys == {r.key : r \in {q \in wire : q.type = "MasterServerListRequest"}}

\* the client side alone: no mission is running
NotHosting ==
    [allowConnections |-> FALSE, serverType |-> "", gameType |-> "", missionType |-> "",
     playerCount |-> 0, maxPlayers |-> 0, privateSlots |-> 0, guidList |-> <<>>,
     dedicated |-> FALSE, passworded |-> FALSE, authenticated |-> FALSE]

\* the n-th GUID a player can have
Guid(n) == 100 + n

\* SpecServer: the hosting side with every number of players and of GUIDs
ServerCfgs ==
    {[NotHosting EXCEPT !.allowConnections = allow, !.serverType = type,
                        !.gameType = "CTF", !.missionType = "any",
                        !.playerCount = players, !.maxPlayers = MaxPlayerCount,
                        !.guidList = [j \in 1..guids |-> Guid(j)]] :
        allow \in BOOLEAN, type \in {"SinglePlayer", "MultiPlayer"},
        players \in 0..MaxPlayerCount, guids \in 0..MaxGuids}

\* the query flags of a request
QueryFlags == SUBSET {"OfflineQuery", "NoStringCompress"}

\* who asks: a client and a master server
Requesters == {1, MasterAddr(1)}

\* the keyField of a request: session 1, key 7
RequestKeys == {KeyField(1, 7)}

---------------------------------------------------------------------------
(* Steps *)

EventDue == \E j \in 1..Len(events) : events[j].due <= now

\* the event Sim::advanceToTime processes next: the earliest, the first posted of those
NextEvent ==
    CHOOSE j \in 1..Len(events) :
        /\ events[j].due <= now
        /\ \A k \in 1..Len(events) :
              \/ events[k].due > events[j].due
              \/ (events[k].due = events[j].due /\ k >= j)

\* the requests a step hands to the socket, with the time of the step
Sent(s) ==
    {[type |-> s.out[j].type, to |-> s.out[j].to, key |-> s.out[j].key,
      page |-> s.out[j].page, at |-> now] : j \in 1..Len(s.out)}

Step(s, op) ==
    /\ Becomes(s)
    /\ lastOp' = op
    /\ wire' = wire \cup Sent(s)
    /\ rejected' = rejected \cup
          {<<gPingSession, a>> : a \in {b \in Servers : /\ op = "GamePingResponse"
                                                        /\ s.gQueryList = gQueryList
                                                        /\ s.gFinishedList[b] > gFinishedList[b]}}
    /\ UNCHANGED <<now, cfgVars, field, ticksLeft>>

Console(s, op) ==
    /\ opsLeft > 0
    /\ ~EventDue
    /\ opsLeft' = opsLeft - 1
    /\ Step(s, op)

QueryLanServers ==
    /\ gPingSession < MaxSession
    /\ \E a \in FilterArgs :
          Console(consoleQueryLanServers(Globals, a, TRUE), "queryLanServers")

QueryMasterServer ==
    /\ gPingSession < MaxSession
    /\ \E a \in FilterArgs :
          Console(consoleQueryMasterServer(Globals, a), "queryMasterServer")

QueryFavoriteServers ==
    /\ gPingSession < MaxSession
    /\ Console(queryFavoriteServers(Globals), "queryFavoriteServers")

QuerySingleServer ==
    /\ Len(gPingList) < MaxPingListLen
    /\ Console(querySingleServer(Globals, 1), "querySingleServer")

CancelServerQuery == Console(cancelServerQuery(Globals), "cancelServerQuery")

StopServerQuery == Console(stopServerQuery(Globals), "stopServerQuery")

Fire(type, s) ==
    /\ EventDue
    /\ events[NextEvent].type = type
    /\ Step(s, type)
    /\ UNCHANGED opsLeft

Dequeued == [Globals EXCEPT !.events = Erase(@, NextEvent)]

FireProcessMasterQueryEvent ==
    Fire("ProcessMasterQueryEvent",
         processMasterServerQuery(Dequeued, events[NextEvent].session))

FireProcessPingEvent ==
    Fire("ProcessPingEvent",
         processPingsAndQueries(Dequeued, events[NextEvent].session, TRUE))

FireProcessPacketEvent ==
    Fire("ProcessPacketEvent",
         processServerListPackets(Dequeued, events[NextEvent].session))

\* A packet the handler drops changes nothing: the step is a stuttering step.
Receive(s, op, maxLen) ==
    /\ ~EventDue
    /\ Len(s.gPingList) <= maxLen
    /\ IF s = Globals
       THEN UNCHANGED vars
       ELSE Step(s, op) /\ UNCHANGED opsLeft

\* The handlers read the body of a packet only when its key is the expected
\* one: a packet with another key is delivered with one body, not with each.
pingKeyExpected(from, key) ==
    /\ findPingEntry(gPingList, from) # -1
    /\ LET p == gPingList[findPingEntry(gPingList, from) + 1]
       IN KeyField(p.session, p.key) = key

GamePingResponseFrom(froms, bodies, maxLen) ==
    \E from \in froms :
      \E key \in EchoKeys("GamePingRequest", from) :
        \E body \in IF pingKeyExpected(from, key) THEN bodies
                    ELSE {PingOk} :
            Receive(handleGamePingResponse(Globals, from,
                        [key |-> key, versionTag |-> body.versionTag,
                         protocolCurrent |-> body.protocolCurrent,
                         protocolMin |-> body.protocolMin,
                         buildVersion |-> body.buildVersion]),
                    "GamePingResponse", maxLen)

\* handleGameInfoResponse has the key of the packet and does not read it
GameInfoResponseWith(froms, bodies, maxLen) ==
    \E from \in froms :
      \E key \in EchoKeys("GameInfoRequest", from) :
        \E body \in bodies :
            /\ ~infoResponseReadsNull(Globals, from, body)
            /\ Receive(handleGameInfoResponse(Globals, from, [key |-> key] @@ body),
                       "GameInfoResponse", maxLen)

GameInfoResponseFrom(froms, maxLen) ==
    GameInfoResponseWith(froms, InfoResponseBodies, maxLen)

RecvGamePingResponse ==
    GamePingResponseFrom(1..NumResponders, PingResponseBodies, MaxPingListLen)

RecvGameInfoResponse == GameInfoResponseFrom(1..NumResponders, MaxPingListLen)

RecvMasterServerListResponse ==
    \E key \in MasterEchoKeys, packetTotal \in 1..MaxPacketTotal :
        \E packetIndex \in 0..(packetTotal - 1) :
            \E servers \in IF KeyField(gPingSession,
                                       masterListPacketKey(Globals, packetIndex)) = key
                           THEN ServerLists ELSE {<<>>} :
                Receive(handleMasterServerListResponse(Globals,
                            [key |-> key, packetIndex |-> packetIndex,
                             packetTotal |-> packetTotal, servers |-> servers]),
                        "MasterServerListResponse", MaxPingListLen)

\* the clock advances; out, emitted and lastOp keep describing the last handler.
\* StartTime stands for the time that passes before the first operation.
Tick ==
    /\ ticksLeft > 0
    /\ lastOp # "init"
    /\ ~EventDue
    /\ now' = now + TickStep
    /\ ticksLeft' = ticksLeft - 1
    /\ UNCHANGED <<progVars, lastOp, wire, rejected, cfgVars, field, opsLeft>>

\* SpecFlight: the master answers at once, with one packet that lists every server
FlightListResponse ==
    \E key \in MasterEchoKeys :
        /\ gMasterServerPing.time = now
        /\ Receive(handleMasterServerListResponse(Globals,
                       [key |-> key, packetIndex |-> 0, packetTotal |-> 1,
                        servers |-> FlightList]),
                   "MasterServerListResponse", NumServers + 1)

FlightPingResponse ==
    GamePingResponseFrom(1..FlightResponders, {PingOk}, NumServers + 1)

FlightInfoResponse == GameInfoResponseFrom(1..FlightResponders, NumServers + 1)

\* SpecLossy: the master's list comes in fragments, any of which can be lost;
\* a fragment that is not lost arrives before the clock advances
LossyListResponse ==
    \E q \in {r \in wire : r.type = "MasterServerListRequest" /\ r.at = now} :
        \E packetIndex \in IF q.page = 255 THEN 0..(MaxFragments - 1) ELSE {q.page} :
            Receive(handleMasterServerListResponse(Globals,
                        [key |-> q.key, packetIndex |-> packetIndex,
                         packetTotal |-> MaxFragments, servers |-> <<1>>]),
                    "MasterServerListResponse", MaxPingListLen)

LossyPingResponse ==
    /\ \E q \in wire : q.type = "GamePingRequest" /\ q.at = now
    /\ GamePingResponseFrom({1}, {PingOk}, MaxPingListLen)

\* the clock advances by less than a query time out and more than a ping time out
LossyTick ==
    /\ ticksLeft > 0
    /\ lastOp # "init"
    /\ ~EventDue
    /\ now' = now + LossyStep
    /\ ticksLeft' = ticksLeft - 1
    /\ UNCHANGED <<progVars, lastOp, wire, rejected, cfgVars, field, opsLeft>>

\* SpecFilter: a LAN query with or without its filters
FilterQueryLanServers ==
    /\ gPingSession < MaxSession
    /\ \E a \in WideFilterArgs, useFilters \in BOOLEAN :
          Console(consoleQueryLanServers(Globals, a, useFilters), "queryLanServers")

FilterPingResponse ==
    GamePingResponseFrom(1..NumResponders, {PingOk}, MaxPingListLen)

FilterInfoResponse ==
    GameInfoResponseWith(1..NumResponders, WideInfoResponseBodies, MaxPingListLen)

\* a request the hosting side does not answer changes nothing: a stuttering step
RecvGamePingRequest ==
    \E from \in Requesters, key \in RequestKeys, flags \in QueryFlags :
        Receive(handleGamePingRequest(Globals, serverCfg, from, key, flags),
                "GamePingRequest", MaxPingListLen)

RecvGameInfoRequest ==
    \E from \in Requesters, key \in RequestKeys, flags \in QueryFlags :
        Receive(handleGameInfoRequest(Globals, serverCfg, from, key, flags),
                "GameInfoRequest", MaxPingListLen)

RecvGameMasterInfoRequest ==
    \E from \in Requesters, key \in RequestKeys, flags \in QueryFlags :
        Receive(handleGameMasterInfoRequest(Globals, serverCfg, from, key, flags),
                "GameMasterInfoRequest", MaxPingListLen)

StartHeartbeat == Console(startHeartbeat(Globals, serverCfg), "startHeartbeat")

StopHeartbeat == Console(stopHeartbeat(Globals), "stopHeartbeat")

FireHeartbeatEvent ==
    Fire("HeartbeatEvent",
         processHeartbeat(Dequeued, events[NextEvent].session, events[NextEvent].due))

---------------------------------------------------------------------------
(* Specifications *)

MasterCfg(n) == [j \in 1..n |-> [address |-> MasterAddr(j), region |-> j]]

FavoriteCfgs == {[j \in 1..n |-> 1] : n \in 0..MaxFavorites}

InitProgram ==
    /\ now = StartTime
    /\ gServerList = <<>>
    /\ gMasterServerList = <<>>
    /\ gFinishedList = EmptyFinishedList
    /\ gMasterServerQueryAddress = 0
    /\ sgServerQueryActive = FALSE
    /\ gPingSession = 0
    /\ gKey = 0
    /\ gGotFirstListPacket = FALSE
    /\ gServerPingCount = 0
    /\ gServerQueryCount = 0
    /\ gHeartbeatSeq = 0
    /\ gMasterServerPing = NewPing(0, 0, 0, FALSE, FALSE)
    /\ gPingList = <<>>
    /\ gQueryList = <<>>
    /\ gPacketStatusList = <<>>
    /\ sActiveFilter = InitialFilter
    /\ events = <<>>
    /\ out = <<>>
    /\ emitted = <<>>
    /\ lastOp = "init"
    /\ wire = {}
    /\ rejected = {}
    /\ prefRegion = 1
    /\ field = [kind |-> "none", input |-> <<>>, stream |-> <<>>, output |-> <<>>,
                read |-> FALSE]

\* every console operation, every event and every packet, with one master
Init ==
    /\ InitProgram
    /\ serverCfg = NotHosting
    /\ masterCfg = MasterCfg(1)
    /\ favoriteCfg \in FavoriteCfgs
    /\ opsLeft = MaxOps
    /\ ticksLeft = MaxTicks

Next ==
    \/ QueryLanServers
    \/ QueryMasterServer
    \/ QueryFavoriteServers
    \/ QuerySingleServer
    \/ CancelServerQuery
    \/ StopServerQuery
    \/ FireProcessMasterQueryEvent
    \/ FireProcessPingEvent
    \/ FireProcessPacketEvent
    \/ RecvGamePingResponse
    \/ RecvGameInfoResponse
    \/ RecvMasterServerListResponse
    \/ Tick

Spec == Init /\ [][Next]_vars

\* nothing answers: every console operation, every event it posts and the
\* time outs, with none, one or more masters configured
InitSilent ==
    /\ InitProgram
    /\ serverCfg = NotHosting
    /\ masterCfg \in {MasterCfg(n) : n \in 0..NumMasters}
    /\ favoriteCfg \in FavoriteCfgs
    /\ opsLeft = MaxOps
    /\ ticksLeft = SilentTicks

NextSilent ==
    \/ QueryLanServers
    \/ QueryMasterServer
    \/ QueryFavoriteServers
    \/ QuerySingleServer
    \/ CancelServerQuery
    \/ StopServerQuery
    \/ FireProcessMasterQueryEvent
    \/ FireProcessPingEvent
    \/ Tick

SpecSilent == InitSilent /\ [][NextSilent]_vars

\* one master query whose list names more servers than the flight limits
InitFlight ==
    /\ InitProgram
    /\ serverCfg = NotHosting
    /\ masterCfg = MasterCfg(1)
    /\ favoriteCfg = <<>>
    /\ opsLeft = 1
    /\ ticksLeft = FlightTicks

NextFlight ==
    \/ QueryMasterServer
    \/ FireProcessMasterQueryEvent
    \/ FireProcessPingEvent
    \/ FlightListResponse
    \/ FlightPingResponse
    \/ FlightInfoResponse
    \/ Tick

SpecFlight == InitFlight /\ [][NextFlight]_vars

\* LAN queries and refreshes whose info responses meet every filter rule
InitFilter ==
    /\ InitProgram
    /\ serverCfg = NotHosting
    /\ masterCfg = MasterCfg(1)
    /\ favoriteCfg \in FavoriteCfgs
    /\ opsLeft = MaxOps
    /\ ticksLeft = FilterTicks

NextFilter ==
    \/ FilterQueryLanServers
    \/ QuerySingleServer
    \/ FireProcessPingEvent
    \/ FilterPingResponse
    \/ FilterInfoResponse
    \/ Tick

SpecFilter == InitFilter /\ [][NextFilter]_vars

\* one master query: fragments of the list are lost, the servers answer
\* their pings and leave the info requests unanswered
InitLossy ==
    /\ InitProgram
    /\ serverCfg = NotHosting
    /\ masterCfg = MasterCfg(1)
    /\ favoriteCfg = <<>>
    /\ opsLeft = 1
    /\ ticksLeft = LossyTicks

NextLossy ==
    \/ QueryMasterServer
    \/ FireProcessMasterQueryEvent
    \/ FireProcessPacketEvent
    \/ FireProcessPingEvent
    \/ LossyListResponse
    \/ LossyPingResponse
    \/ LossyTick

SpecLossy == InitLossy /\ [][NextLossy]_vars

\* master queries no master answers, for every list of up to NumMasters
\* masters of either region, the same address twice included
InitMasters ==
    /\ InitProgram
    /\ serverCfg = NotHosting
    /\ \E n \in 0..NumMasters :
          masterCfg \in [1..n -> [address : Masters, region : 1..2]]
    /\ favoriteCfg = <<>>
    /\ opsLeft = MaxOps
    /\ ticksLeft = SilentTicks

NextMasters ==
    \/ QueryMasterServer
    \/ FireProcessMasterQueryEvent
    \/ FireProcessPingEvent
    \/ Tick

SpecMasters == InitMasters /\ [][NextMasters]_vars

\* the hosting side answering ping, info and master info requests
InitServer ==
    /\ InitProgram
    /\ serverCfg \in ServerCfgs
    /\ masterCfg = MasterCfg(1)
    /\ favoriteCfg = <<>>
    /\ opsLeft = 0
    /\ ticksLeft = 0

NextServer ==
    \/ RecvGamePingRequest
    \/ RecvGameInfoRequest
    \/ RecvGameMasterInfoRequest

SpecServer == InitServer /\ [][NextServer]_vars

\* the heartbeat of the hosting side, started and stopped, with none, one or
\* more masters configured
InitHeartbeat ==
    /\ InitProgram
    /\ serverCfg \in {[NotHosting EXCEPT !.allowConnections = TRUE,
                                         !.authenticated = auth] : auth \in BOOLEAN}
    /\ masterCfg \in {MasterCfg(n) : n \in 0..NumMasters}
    /\ favoriteCfg = <<>>
    /\ opsLeft = HeartbeatOps
    /\ ticksLeft = HeartbeatTicks

NextHeartbeat ==
    \/ StartHeartbeat
    \/ StopHeartbeat
    \/ FireHeartbeatEvent
    \/ Tick

SpecHeartbeat == InitHeartbeat /\ [][NextHeartbeat]_vars

\* the strings written: of every length around the widths of the two length
\* fields, with bytes that differ from one string to the next
Strings ==
    {[i \in 1..len |-> 1 + ((seed + i) % (Pow2(8) - 1))] :
        len \in {0, 1, 2, 255, 256, 257, 65535, 65536}, seed \in 1..MaxSeed}

\* the (session, key) pairs sendPacket is called with
KeyInputs == {0, 1, MaxSession, Pow2(15) - 1} \X {0, 1, 65535, 65536, 65537}

\* a field is written to an empty packet stream
WriteField ==
    /\ field.stream = <<>>
    /\ \E kind \in {"CString", "LongCString", "keyField"} :
       \E input \in IF kind = "keyField" THEN KeyInputs ELSE Strings :
          field' = [kind |-> kind,
                    input |-> input,
                    stream |-> CASE kind = "CString" -> writeCString(<<>>, input)
                                 [] kind = "LongCString" -> writeLongCString(<<>>, input)
                                 [] kind = "keyField" ->
                                        U32Bytes(KeyField(input[1], input[2])),
                    output |-> <<>>,
                    read |-> FALSE]
    /\ UNCHANGED <<now, progVars, lastOp, wire, rejected, cfgVars, opsLeft, ticksLeft>>

\* the receiver reads the field back: a string, or the key field it splits
\* into the session (the high 16 bits) and the key (the low 16 bits)
ReadField ==
    /\ field.stream # <<>>
    /\ field' = [field EXCEPT
                    !.read = TRUE,
                    !.stream = <<>>,
                    !.output =
                        CASE field.kind = "CString" -> readCString(field.stream).buffer
                          [] field.kind = "LongCString" ->
                                 readLongCString(field.stream).buffer
                          [] field.kind = "keyField" ->
                                 <<ReadU16(field.stream, 3), ReadU16(field.stream, 1)>>]
    /\ UNCHANGED <<now, progVars, lastOp, wire, rejected, cfgVars, opsLeft, ticksLeft>>

InitFields ==
    /\ InitProgram
    /\ serverCfg = NotHosting
    /\ masterCfg = MasterCfg(1)
    /\ favoriteCfg = <<>>
    /\ opsLeft = 0
    /\ ticksLeft = 0

NextFields ==
    \/ WriteField
    \/ ReadField

SpecFields == InitFields /\ [][NextFields]_vars

---------------------------------------------------------------------------
(* Steps as the properties see them *)

\* a step that handled a packet of this type and did not drop it
PacketStep(type) ==
    /\ ~EventDue
    /\ now' = now
    /\ opsLeft' = opsLeft
    /\ lastOp' = type
    /\ vars' # vars

\* a step that processed a Sim event
EventStep == EventDue /\ events' # events

\* a step that ran this console operation
ConsoleStep(op) == opsLeft' = opsLeft - 1 /\ lastOp' = op

ListsEmpty == gPingList = <<>> /\ gQueryList = <<>> /\ gPacketStatusList = <<>>

SessionOf(key) == key \div Pow2(16)

---------------------------------------------------------------------------
(* Cancellation *)

\* C1: once cancelServerQuery has run and until a new query starts (the query
\* is not active), a GamePingResponse, GameInfoResponse or
\* MasterServerListResponse that arrives leaves pingList, queryList and
\* packetStatusList empty and ServerList unchanged.
C1_CancelDropsLatePackets ==
    [][(/\ ~sgServerQueryActive
        /\ \/ PacketStep("GamePingResponse")
           \/ PacketStep("GameInfoResponse")
           \/ PacketStep("MasterServerListResponse"))
       => (ListsEmpty' /\ gServerList' = gServerList)]_vars

\* C2: a ProcessPingEvent, ProcessPacketEvent or ProcessMasterQueryEvent that
\* fires while the query is cancelled sends no packet, emits no status event
\* (no "done" in particular) and schedules nothing.
C2_CancelledEventsAreNoOps ==
    [][(~sgServerQueryActive /\ EventStep)
       => (out' = <<>> /\ emitted' = <<>> /\ Len(events') = Len(events) - 1)]_vars

\* C3: the session never decreases, and cancelServerQuery on an active query
\* strictly increases it.
C3_CancelBumpsSession ==
    [][/\ gPingSession' >= gPingSession
       /\ (sgServerQueryActive /\ ConsoleStep("cancelServerQuery"))
              => gPingSession' > gPingSession]_vars

---------------------------------------------------------------------------
(* Sessions and keys *)

\* every GameInfoRequest ever sent to this address carries another session
\* than the current one: whatever a GameInfoResponse from it echoes is stale
OnlyStaleInfoKeys(from) ==
    \A key \in EchoKeys("GameInfoRequest", from) :
        SessionOf(key) # gPingSession % Pow2(16)

EntriesOf(list, addr) == {list[j] : j \in {k \in 1..Len(list) : list[k].address = addr}}

\* C4: a GameInfoResponse whose keyField carries another session than the
\* current one removes no queryList entry of its source address and creates,
\* modifies or removes no ServerInfo.
C4_StaleInfoResponseIgnored ==
    [][\A from \in Servers :
          (PacketStep("GameInfoResponse") /\ OnlyStaleInfoKeys(from))
          => (/\ EntriesOf(gQueryList', from) = EntriesOf(gQueryList, from)
              /\ EntriesOf(gServerList', from) = EntriesOf(gServerList, from))]_vars

\* C5: pingList holds at most one Ping per address.
C5_OnePingPerAddress ==
    \A j, k \in 1..Len(gPingList) :
        gPingList[j].address = gPingList[k].address => j = k

---------------------------------------------------------------------------
(* Phases and flight limits *)

\* the entries of a list with a request sent and neither answered nor timed out
Outstanding(list) == {j \in 1..Len(list) : list[j].time # 0}

SentTo(type) == {q.to : q \in {r \in wire : r.type = type}}

\* C6: at most gMaxConcurrentPings entries of pingList have a GamePingRequest
\* outstanding and at most gMaxConcurrentQueries entries of queryList have a
\* GameInfoRequest outstanding.
C6_FlightLimits ==
    /\ Cardinality(Outstanding(gPingList)) <= gMaxConcurrentPings
    /\ Cardinality(Outstanding(gQueryList)) <= gMaxConcurrentQueries

\* more servers than the ping limit have been pinged, and the queryList holds
\* more entries than the query limit, as many as the limit outstanding
C6_Witness ==
    /\ Cardinality(SentTo("GamePingRequest")) > gMaxConcurrentPings + 1
    /\ Len(gQueryList) > gMaxConcurrentQueries
    /\ Cardinality(Outstanding(gQueryList)) = gMaxConcurrentQueries

SentNow(type) == \E j \in 1..Len(out) : out[j].type = type

\* C7: a GameInfoRequest is transmitted only by a step that leaves pingList
\* empty: the query loop runs after the ping loop, and only when no ping is
\* left.
C7_QueryPhaseAfterPings == SentNow("GameInfoRequest") => gPingList = <<>>

\* a GameInfoRequest was transmitted by a ProcessPingEvent
C7_Witness == SentNow("GameInfoRequest") /\ lastOp = "ProcessPingEvent"

Done(e) == e.phase = "done"

\* C8: a "done" status event is emitted only with pingList, queryList and
\* packetStatusList empty and while not awaiting the master's first list
\* packet.
C8_DoneOnlyWhenIdle ==
    \A j \in 1..Len(emitted) :
        Done(emitted[j]) =>
            /\ emitted[j].pings = 0
            /\ emitted[j].queries = 0
            /\ emitted[j].packets = 0
            /\ ~emitted[j].awaiting

---------------------------------------------------------------------------
(* Master servers that do not answer *)

ConfiguredMasters == {masterCfg[j].address : j \in 1..Len(masterCfg)}

RemainingMasters == {gMasterServerList[j].address : j \in 1..Len(gMasterServerList)}

\* the first requests (not the re-requests of list packets) of a session to a master
MasterRequests(m, session) ==
    {q \in wire : /\ q.type = "MasterServerListRequest"
                  /\ q.page = 255
                  /\ q.to = m
                  /\ SessionOf(q.key) = session}

Sessions == 0..MaxSession

\* the current session's query asked a master
MasterQueryRan == \E m \in ConfiguredMasters : MasterRequests(m, gPingSession) # {}

ProcessPingPending ==
    \E j \in 1..Len(events) :
        events[j].type = "ProcessPingEvent" /\ events[j].session = gPingSession

\* C9: a master that does not answer is sent at most gMasterServerRetryCount
\* requests per query, any two of them gMasterServerTimeout apart or more and
\* with different keys; a master the query has removed was sent exactly that
\* many, and the master asked next is one that remains; when the last one is
\* removed processPingsAndQueries runs (it schedules itself or reports
\* "done"), and a "done" with no ServerInfo reads "No servers found.".
C9_MasterRetries ==
    /\ \A m \in ConfiguredMasters, session \in Sessions :
          /\ Cardinality(MasterRequests(m, session)) <= gMasterServerRetryCount
          /\ \A q, r \in MasterRequests(m, session) :
                q # r => /\ q.key # r.key
                         /\ \/ q.at - r.at >= gMasterServerTimeout
                            \/ r.at - q.at >= gMasterServerTimeout
    /\ MasterQueryRan =>
          /\ \A m \in ConfiguredMasters \ RemainingMasters :
                Cardinality(MasterRequests(m, gPingSession)) = gMasterServerRetryCount
          /\ RemainingMasters # {} => gMasterServerPing.address \in RemainingMasters
    /\ (MasterQueryRan /\ RemainingMasters = {} /\ lastOp = "ProcessMasterQueryEvent")
          => (ProcessPingPending \/ \E j \in 1..Len(emitted) : Done(emitted[j]))
    /\ \A j \in 1..Len(emitted) :
          (Done(emitted[j]) /\ gServerList = <<>>) => emitted[j].msg = "No servers found."

\* one queryMasterServer and no other operation: every configured master was
\* asked three times and removed, and the query ended with "No servers found."
C9_Witness ==
    /\ opsLeft = MaxOps - 1
    /\ Len(masterCfg) = NumMasters
    /\ RemainingMasters = {}
    /\ \A m \in ConfiguredMasters :
          Cardinality(MasterRequests(m, gPingSession)) = gMasterServerRetryCount
    /\ \E j \in 1..Len(emitted) :
          Done(emitted[j]) /\ emitted[j].msg = "No servers found."

\* C10: after queryMasterServer with no master configured the LAN pings it
\* enqueued are in progress: they were transmitted by the call, or a
\* ProcessPingEvent of the session is pending to transmit them.
C10_NoMasterDegradesToLan ==
    (lastOp = "queryMasterServer" /\ masterCfg = <<>> /\ gPingList # <<>>)
    => (SentNow("GamePingRequest") \/ ProcessPingPending)

---------------------------------------------------------------------------
(* LAN queries *)

\* C11: after queryLanServers the broadcast ping is transmitted: the call
\* sent it, or a ProcessPingEvent of the session is pending to send it (and
\* with it the unicast pings, the info requests and the "done" that follow).
C11_LanBroadcastTransmitted ==
    lastOp = "queryLanServers"
    => (\/ \E j \in 1..Len(out) :
              out[j].type = "GamePingRequest" /\ out[j].to = BroadcastIP
        \/ ProcessPingPending)

---------------------------------------------------------------------------
(* The active filter *)

\* a step that ran a console operation that starts a query
QueryStartStep ==
    \/ ConsoleStep("queryLanServers")
    \/ ConsoleStep("queryMasterServer")
    \/ ConsoleStep("queryFavoriteServers")
    \/ ConsoleStep("querySingleServer")

\* C12: when queryMasterServer returns the type of the active filter is
\* Normal if the buddy list is empty and Buddy otherwise, and no step but the
\* start of the next query changes the type.
C12_MasterFilterType ==
    /\ [](lastOp = "queryMasterServer"
          => sActiveFilter.type = IF sActiveFilter.buddyCount = 0 THEN "Normal"
                                  ELSE "Buddy")
    /\ [][QueryStartStep \/ sActiveFilter'.type = sActiveFilter.type]_vars

---------------------------------------------------------------------------
(* The finished list *)

Finished == {a \in Servers : addressFinished(Globals, a)}

\* the list packets the master can answer the requests sent so far with
ListPackets ==
    {[key |-> key, packetIndex |-> packetIndex, packetTotal |-> packetTotal,
      servers |-> servers] :
        key \in MasterEchoKeys, packetIndex \in 0..(MaxPacketTotal - 1),
        packetTotal \in 1..MaxPacketTotal, servers \in ServerLists}

ListPacketAccepted(pkt) ==
    KeyField(gPingSession, masterListPacketKey(Globals, pkt.packetIndex)) = pkt.key

CountOf(list, addr) == Cardinality({j \in 1..Len(list) : list[j].address = addr})

\* C13: pushPingRequest of an address in the finished list changes nothing,
\* and a master list packet, a duplicate or not, adds no Ping for an address
\* that is in the finished list: its loop over the addresses leaves the Pings
\* of such an address as they are and adds one to gServerPingCount per Ping
\* it adds, and the handler as a whole leaves no more Pings for such an
\* address than there were.
C13_FinishedNotRequeued ==
    /\ \A a \in Finished : pushPingRequest(Globals, a) = Globals
    /\ \A pkt \in ListPackets :
          LET pushed == PushAll(Globals, pkt.servers, 1)
              s == handleMasterServerListResponse(Globals, pkt)
          IN \A a \in Finished :
                /\ EntriesOf(pushed.gPingList, a) = EntriesOf(gPingList, a)
                /\ CountOf(pushed.gPingList, a) = CountOf(gPingList, a)
                /\ Len(pushed.gPingList) - Len(gPingList)
                      = pushed.gServerPingCount - gServerPingCount
                /\ CountOf(s.gPingList, a) <= CountOf(gPingList, a)

\* queryMasterServer and no other operation: the list packet was handled,
\* server 1 has answered its ping, is in the finished list and awaits its
\* query, and a duplicate of the list packet (every list packet names server
\* 1) is one the handler accepts: it adds no Ping
C13_Witness ==
    /\ opsLeft = MaxOps - 1
    /\ gGotFirstListPacket
    /\ 1 \in Finished
    /\ EntriesOf(gPingList, 1) = {}
    /\ EntriesOf(gQueryList, 1) # {}
    /\ \E pkt \in ListPackets :
          /\ ListPacketAccepted(pkt)
          /\ handleMasterServerListResponse(Globals, pkt).gPingList = gPingList

---------------------------------------------------------------------------
(* The server list *)

\* C14: no two ServerInfo records of gServerList have the same address.
C14_UniqueAddresses ==
    \A j, k \in 1..Len(gServerList) :
        gServerList[j].address = gServerList[k].address => j = k

\* the favorite, already in gServerList, has answered its ping, and a server
\* the broadcast found has a ServerInfo of its own
C14_Witness ==
    /\ lastOp = "GamePingResponse"
    /\ Len(gServerList) = 2
    /\ \E j \in 1..Len(gServerList) :
          gServerList[j].isFavorite /\ gServerList[j].address \in Finished

---------------------------------------------------------------------------
(* Timed out servers *)

TimedOut(a) ==
    \E j \in 1..Len(gServerList) :
        gServerList[j].address = a /\ "TimedOut" \in gServerList[j].status

\* C16: a ServerInfo marked TimedOut stays in gServerList, and no
\* GamePingRequest or GameInfoRequest is sent to its address, as long as the
\* session is the same and querySingleServer is not called for the address
\* (QuerySingleServer refreshes server 1).
C16_TimedOutLeftAlone ==
    [][\A a \in Servers :
          (/\ TimedOut(a)
           /\ gPingSession' = gPingSession
           /\ ~(a = 1 /\ ConsoleStep("querySingleServer")))
          => /\ \E j \in 1..Len(gServerList') : gServerList'[j].address = a
             /\ \A j \in 1..Len(out') :
                   out'[j].type \in {"GamePingRequest", "GameInfoRequest"}
                   => out'[j].to # a]_vars

---------------------------------------------------------------------------
(* Filter rules *)

\* the rules as the filter engine states them, on the fields of the response
RuleRejects(f, body) ==
    \/ ~dStricmpEqual(f.gameType, "any") /\ ~dStricmpEqual(body.gameType, f.gameType)
    \/ ~dStricmpEqual(f.missionType, "any")
          /\ ~dStricmpEqual(body.missionType, f.missionType)
    \/ "Dedicated" \in f.filterFlags /\ "Dedicated" \notin body.status
    \/ "NotPassworded" \in f.filterFlags /\ "Passworded" \in body.status
    \/ body.numPlayers < f.minPlayers
    \/ body.numPlayers > f.maxPlayers
    \/ body.numBots > f.maxBots
    \/ body.cpuSpeed < f.minCPU

\* a GameInfoResponse from this address is accepted: a queryList entry and a
\* ServerInfo wait for it
InfoAccepted(from) ==
    findPingEntry(gQueryList, from) # -1 /\ findServerInfo(Globals, from) # 0

FilterApplies(from) ==
    /\ sActiveFilter.type \in {"Normal", "OfflineFiltered"}
    /\ "Updating" \notin gServerList[findServerInfo(Globals, from)].status

\* C17: when the filter applies, an accepted GameInfoResponse removes the
\* ServerInfo iff a rule rejects the response; otherwise the ServerInfo stays
\* and has Status_Responded.
C17_InfoFilterRules ==
    \A from \in Servers, body \in WideInfoResponseBodies :
        (/\ InfoAccepted(from)
         /\ FilterApplies(from)
         /\ ~infoResponseReadsNull(Globals, from, body))
        => LET s == handleGameInfoResponse(Globals, from, body)
               si == findServerInfo(s, from)
           IN /\ (si = 0) <=> RuleRejects(sActiveFilter, body)
              /\ si # 0 => "Responded" \in s.gServerList[si].status

Updating(a) ==
    \E j \in 1..Len(gServerList) :
        gServerList[j].address = a /\ "Updating" \in gServerList[j].status

\* C18: a ServerInfo marked Updating is not removed from gServerList when a
\* GamePingResponse or a GameInfoResponse is processed.
C18_UpdatingNeverRemoved ==
    [][\A a \in Servers :
          (/\ Updating(a)
           /\ PacketStep("GamePingResponse") \/ PacketStep("GameInfoResponse"))
          => \E j \in 1..Len(gServerList') : gServerList'[j].address = a]_vars

---------------------------------------------------------------------------
(* Status events *)

RespondedServers ==
    {j \in 1..Len(gServerList) : "Responded" \in gServerList[j].status}

\* C19: the number of servers a "done" event reports as found (foundCount,
\* the left field of the event) is the number of ServerInfo records with
\* Status_Responded.
C19_DoneCountsResponded ==
    \A j \in 1..Len(emitted) :
        Done(emitted[j]) => emitted[j].left = Cardinality(RespondedServers)

\* C20: every progress value emitted lies in [0, 1]: a "ping" event (progress
\* (total - left) / (2 * total), or 0 when total is 0) has left <= total, the
\* non-broadcast Pings left against gServerPingCount, and a "query" event
\* (progress 0.5 + (total - left) / (2 * total), or 0.5 when total is 0) has
\* left <= total, the queryList entries left against gServerQueryCount, so
\* that the unsigned total - left does not wrap.
C20_ProgressInRange ==
    \A j \in 1..Len(emitted) :
        emitted[j].phase \in {"ping", "query"}
        => (emitted[j].total = 0 \/ emitted[j].left <= emitted[j].total)

---------------------------------------------------------------------------
(* The hosting side *)

NotAccepting == ~serverCfg.allowConnections

SinglePlayer == dStricmpEqual(serverCfg.serverType, "SinglePlayer")

NoReply(s) == s.out = <<>>

\* C21: no reply is sent to a GamePingRequest, a GameInfoRequest or a
\* GameMasterInfoRequest when the server does not accept connections or
\* Server::ServerType is "SinglePlayer", and none to a ping or info request
\* whose flags have the OfflineQuery bit.
C21_NoReplyWhenClosed ==
    \A from \in Requesters, key \in RequestKeys, flags \in QueryFlags :
        LET ping == handleGamePingRequest(Globals, serverCfg, from, key, flags)
            info == handleGameInfoRequest(Globals, serverCfg, from, key, flags)
            master == handleGameMasterInfoRequest(Globals, serverCfg, from, key, flags)
        IN /\ (NotAccepting \/ SinglePlayer)
                 => (NoReply(ping) /\ NoReply(info) /\ NoReply(master))
           /\ "OfflineQuery" \in flags => (NoReply(ping) /\ NoReply(info))

MasterInfoReply ==
    handleGameMasterInfoRequest(Globals, serverCfg, MasterAddr(1), KeyField(1, 7), {})

\* the first n elements of a sequence, all of them when it has fewer
Prefix(seq, n) == [j \in 1..(IF n < Len(seq) THEN n ELSE Len(seq)) |-> seq[j]]

Zeros(n) == [j \in 1..n |-> 0]

\* C22: a GameMasterInfoResponse carries exactly playerCount GUID entries:
\* the GUIDs of Server::GuidList in order, at most playerCount of them, then
\* zeros when fewer than playerCount are published.
C22_GuidListPadded ==
    ~NotAccepting =>
        LET reply == MasterInfoReply.out[1]
            published == Prefix(serverCfg.guidList, reply.playerCount)
        IN /\ Len(reply.guids) = reply.playerCount
           /\ reply.guids = published \o Zeros(reply.playerCount - Len(published))

---------------------------------------------------------------------------
(* Heartbeats *)

\* the HeartbeatEvents that will send: those of the current sequence number
LiveHeartbeats(evs) ==
    {j \in 1..Len(evs) : evs[j].type = "HeartbeatEvent" /\ evs[j].session = gHeartbeatSeq}

\* one GameHeartbeat to every configured master, and nothing else
HeartbeatToAll(pkts) ==
    /\ Len(pkts) = Len(masterCfg)
    /\ \A j \in 1..Len(pkts) :
          pkts[j].type = "GameHeartbeat" /\ pkts[j].to = masterCfg[j].address

\* C23: startHeartbeat with the authentication predicate true sends a
\* GameHeartbeat to every configured master at once and schedules the next
\* round gHeartbeatInterval later, and every round that fires does the same;
\* stopHeartbeat leaves no HeartbeatEvent that will send, and one that fires
\* after it sends nothing and schedules nothing; only startHeartbeat starts
\* the rounds again; with the predicate false startHeartbeat sends nothing
\* and changes no state.
C23_Heartbeat ==
    [][/\ (ConsoleStep("startHeartbeat") /\ serverCfg.authenticated)
            => /\ HeartbeatToAll(out')
               /\ \E j \in 1..Len(events') :
                     /\ events'[j] = SimEvent("HeartbeatEvent", gHeartbeatSeq',
                                              now + gHeartbeatInterval)
                     /\ \A k \in 1..Len(events') :
                           events'[k].session = gHeartbeatSeq' => k = j
       /\ (ConsoleStep("startHeartbeat") /\ ~serverCfg.authenticated)
            => /\ out' = <<>>
               /\ UNCHANGED <<gHeartbeatSeq, events, gPingSession>>
       /\ (EventStep /\ NextEvent \in LiveHeartbeats(events))
            => /\ HeartbeatToAll(out')
               /\ \E j \in 1..Len(events') :
                     events'[j] = SimEvent("HeartbeatEvent", gHeartbeatSeq,
                                           events[NextEvent].due + gHeartbeatInterval)
       /\ ConsoleStep("stopHeartbeat")
            => /\ out' = <<>>
               /\ \A j \in 1..Len(events') : events'[j].session # gHeartbeatSeq'
       /\ (EventStep /\ NextEvent \notin LiveHeartbeats(events))
            => /\ out' = <<>>
               /\ Len(events') = Len(events) - 1
       /\ (now' = now /\ \E j \in 1..Len(out') : out'[j].type = "GameHeartbeat")
            => \/ ConsoleStep("startHeartbeat")
               \/ EventStep /\ NextEvent \in LiveHeartbeats(events)]_vars

HeartbeatTimes == {q.at : q \in {r \in wire : r.type = "GameHeartbeat"}}

\* the heartbeat was started with every master configured, a second round
\* followed, stopHeartbeat was called, and the HeartbeatEvent the second
\* round had scheduled has now fired: it sent nothing and scheduled nothing
C23_Witness ==
    /\ Len(masterCfg) = NumMasters
    /\ Cardinality(HeartbeatTimes) = 2
    /\ {q.to : q \in {r \in wire : r.type = "GameHeartbeat"}} = ConfiguredMasters
    /\ gHeartbeatSeq = 2
    /\ lastOp = "HeartbeatEvent"
    /\ out = <<>>
    /\ events = <<>>

---------------------------------------------------------------------------
(* Stopping a query *)

\* C24: stopServerQuery on an active query with a non-empty pingList empties
\* packetStatusList and pingList, leaves every address that was in pingList
\* finished, and changes neither queryList, the server list, the session nor
\* the active flag; on an inactive query it changes no program state and
\* sends nothing.
C24_StopMovesPingsToFinished ==
    [][ConsoleStep("stopServerQuery") =>
          /\ (sgServerQueryActive /\ gPingList # <<>>) =>
                /\ gPacketStatusList' = <<>>
                /\ gPingList' = <<>>
                /\ \A j \in 1..Len(gPingList) : gFinishedList'[gPingList[j].address] > 0
                /\ \A a \in Addresses : gFinishedList'[a] >= gFinishedList[a]
                /\ UNCHANGED <<gQueryList, gServerList, gPingSession, sgServerQueryActive>>
          /\ ~sgServerQueryActive =>
                /\ out' = <<>>
                /\ UNCHANGED <<gServerList, gMasterServerList, gFinishedList,
                               gMasterServerQueryAddress, sgServerQueryActive,
                               gPingSession, gKey, gGotFirstListPacket,
                               gServerPingCount, gServerQueryCount, gHeartbeatSeq,
                               gMasterServerPing, gPingList, gQueryList,
                               gPacketStatusList, sActiveFilter, events>>]_vars

\* stopServerQuery has just stopped a query that was pinging a server: the
\* query is still active, nothing is left to ping, and the server is finished
C24_Witness ==
    /\ lastOp = "stopServerQuery"
    /\ sgServerQueryActive
    /\ gPingList = <<>>
    /\ gPacketStatusList = <<>>
    /\ \E a \in Servers : a \in Finished /\ \E j \in 1..Len(gServerList) :
                                               gServerList[j].address = a

---------------------------------------------------------------------------
(* Refreshing one server *)

\* C25: in every reachable state, after querySingleServer(A) returns, a
\* ServerInfo that existed for A has status exactly New|Updating, A is not
\* finished, and pingList holds a Ping for A.
C25_SingleQueryPingsAgain ==
    \A a \in Servers :
        LET s == querySingleServer(Globals, a)
            j == FindAddr(s.gServerList, a)
        IN /\ FindAddr(gServerList, a) # 0 => s.gServerList[j].status = {"New", "Updating"}
           /\ ~addressFinished(s, a)
           /\ CountOf(s.gPingList, a) > 0

---------------------------------------------------------------------------
(* Packet fields round-trip *)

\* C26: a string of at most 255 bytes written by writeCString is read back
\* unchanged by readCString, a string of at most 65535 bytes written by
\* writeLongCString is read back unchanged by readLongCString, and the key
\* field sendPacket writes gives back the session and the low 16 bits of the
\* key for every session below 2^16, so that two distinct (session, key mod
\* 2^16) pairs never give the same key field.
C26_FieldsRoundTrip ==
    /\ field.read =>
          /\ (field.kind = "CString" /\ Len(field.input) <= 255)
                => field.output = field.input
          /\ (field.kind = "LongCString" /\ Len(field.input) <= 65535)
                => field.output = field.input
          /\ (field.kind = "keyField" /\ field.input[1] < Pow2(16))
                => field.output = <<field.input[1], field.input[2] % Pow2(16)>>
    /\ \A p \in KeyInputs, q \in KeyInputs :
          (p[1] < Pow2(16) /\ q[1] < Pow2(16) /\ KeyField(p[1], p[2]) = KeyField(q[1], q[2]))
              => (p[1] = q[1] /\ p[2] % Pow2(16) = q[2] % Pow2(16))

\* a string longer than 255 bytes was written by writeLongCString and has
\* been read back
C26_Witness ==
    /\ field.kind = "LongCString"
    /\ field.read
    /\ Len(field.input) > 255
    /\ Len(field.input) <= 65535
    /\ field.output = field.input

---------------------------------------------------------------------------
(* The key of a master list packet *)

\* what can be seen of a list packet the handler has accepted: the first
\* packet has been received, no PacketStatus waits for the packet's index,
\* and every server the packet names is being pinged or is finished
ListPacketTaken(s, pkt) ==
    /\ s.gGotFirstListPacket
    /\ FindIndex(s.gPacketStatusList, pkt.packetIndex) = 0
    /\ \A j \in 1..Len(pkt.servers) :
          CountOf(s.gPingList, pkt.servers[j]) > 0 \/ addressFinished(s, pkt.servers[j])

\* the key fields of the keys stored in the PacketStatus entries for an index
StatusKeyFields(packetIndex) ==
    {KeyField(gPingSession, gPacketStatusList[j].key) :
        j \in {k \in 1..Len(gPacketStatusList) :
                 gPacketStatusList[k].index = packetIndex}}

\* C27 as stated: a list packet for index i is accepted when it echoes the
\* key field of the master request or of the PacketStatus for index i, and
\* in every other case it is dropped and changes nothing.
C27_ListKeyOfRequestOrStatus ==
    \A pkt \in ListPackets :
        LET s == handleMasterServerListResponse(Globals, pkt)
        IN IF pkt.key \in {KeyField(gPingSession, gMasterServerPing.key)}
                             \cup StatusKeyFields(pkt.packetIndex)
           THEN ListPacketTaken(s, pkt)
           ELSE s = Globals

\* C27, amended: a list packet for index i is accepted iff it echoes the key
\* field of the key stored in the PacketStatus for index i when the first
\* list packet has been received and such a PacketStatus exists, and of the
\* key of the master request otherwise; in every other case it is dropped
\* and changes nothing.
C27_ListKeyOfFragment ==
    \A pkt \in ListPackets :
        LET s == handleMasterServerListResponse(Globals, pkt)
            stored == StatusKeyFields(pkt.packetIndex)
        IN IF pkt.key \in (IF gGotFirstListPacket /\ stored # {}
                           THEN stored
                           ELSE {KeyField(gPingSession, gMasterServerPing.key)})
           THEN ListPacketTaken(s, pkt)
           ELSE s = Globals

\* the second packet of the list was requested again, under a key of its
\* own, and the answer to that request has just been accepted
C27_Witness ==
    /\ lastOp = "MasterServerListResponse"
    /\ gGotFirstListPacket
    /\ gPacketStatusList = <<>>
    /\ \E q \in wire : /\ q.type = "MasterServerListRequest"
                       /\ q.page = 1
                       /\ q.key # KeyField(gPingSession, gMasterServerPing.key)

---------------------------------------------------------------------------
(* Reassembly of the master's list *)

\* the first list packets the master can answer the request with
FirstPackets ==
    {[key |-> KeyField(gPingSession, gMasterServerPing.key), packetIndex |-> k,
      packetTotal |-> n, servers |-> <<1>>] :
        k \in 0..MaxFragments, n \in 1..(MaxFragments + 1)}

\* a request for one fragment of the list, as opposed to the whole list
Rerequest(pkt) == pkt.type = "MasterServerListRequest" /\ pkt.page # 255

\* C28: the first accepted list packet (index k of n) leaves a PacketStatus
\* for every index in [0,n) but k, each with gPacketRetryCount tries and the
\* key of the master request; a fragment is requested again only from the
\* master the list was requested from, later than gPacketTimeout after its
\* last request, under its own index, with every filter field zero, and
\* with a try less left each time; no fragment is requested more than
\* gPacketRetryCount times, and a fragment without tries is dropped from the
\* list when its time out is found or by the event that follows within 30 ms.
C28_Reassembly ==
    /\ [](\A pkt \in FirstPackets :
            (~gGotFirstListPacket /\ pkt.packetIndex < pkt.packetTotal) =>
                LET list == handleMasterServerListResponse(Globals, pkt).gPacketStatusList
                IN /\ {list[j].index : j \in 1..Len(list)}
                         = (0..(pkt.packetTotal - 1)) \ {pkt.packetIndex}
                   /\ Len(list) = pkt.packetTotal - 1
                   /\ \A j \in 1..Len(list) :
                         /\ list[j].tryCount = gPacketRetryCount
                         /\ list[j].key = gMasterServerPing.key)
    /\ [](\A i \in 0..(MaxFragments - 1) :
            Cardinality({q \in wire : /\ Rerequest(q)
                                      /\ q.page = i
                                      /\ SessionOf(q.key) = gPingSession})
                <= gPacketRetryCount)
    /\ [][now' = now =>
            /\ \A j \in 1..Len(out') : Rerequest(out'[j]) =>
                  LET i == FindIndex(gPacketStatusList, out'[j].page)
                      k == FindIndex(gPacketStatusList', out'[j].page)
                  IN /\ i # 0 /\ k # 0
                     /\ gPacketStatusList[i].time + gPacketTimeout < now
                     /\ gPacketStatusList'[k].tryCount = gPacketStatusList[i].tryCount - 1
                     /\ gPacketStatusList'[k].tryCount >= 0
                     /\ gPacketStatusList'[k].time = now
                     /\ KeyField(gPingSession, gPacketStatusList'[k].key) = out'[j].key
                     /\ out'[j].to = gMasterServerQueryAddress
                     /\ out'[j].to = gMasterServerPing.address
                     /\ {out'[j].gameType, out'[j].missionType, out'[j].minPlayers,
                         out'[j].maxPlayers, out'[j].regionMask, out'[j].version,
                         out'[j].filterFlags, out'[j].maxBots, out'[j].minCPU,
                         out'[j].buddyCount} = {0}
            /\ (EventStep /\ events[NextEvent].type = "ProcessPacketEvent"
                          /\ events[NextEvent].session = gPingSession
                          /\ sgServerQueryActive) =>
                  \A j \in 1..Len(gPacketStatusList) :
                      (/\ gPacketStatusList[j].tryCount = 0
                       /\ gPacketStatusList[j].time + gPacketTimeout < now)
                        => \/ FindIndex(gPacketStatusList', gPacketStatusList[j].index) = 0
                           \/ \E e \in 1..Len(events') :
                                 /\ events'[e].type = "ProcessPacketEvent"
                                 /\ events'[e].due <= now + 30]_vars

\* the two fragments that were missing have each been requested
\* gPacketRetryCount times and have been dropped from the list
C28_Witness ==
    /\ gGotFirstListPacket
    /\ gPacketStatusList = <<>>
    /\ lastOp = "ProcessPacketEvent"
    /\ \A i \in {1, 2} :
          Cardinality({q \in wire : Rerequest(q) /\ q.page = i}) = gPacketRetryCount

---------------------------------------------------------------------------
(* Ping retries *)

\* the tries a Ping is queued with
PingTries(ping) == IF ping.broadcast THEN 1 ELSE gPingRetryCount

PingEntries(list) == {list[j] : j \in 1..Len(list)}

\* a Ping as its transmission in this step leaves it, and the Ping it was
\* before: queued in this very step, or one whose last transmission is more
\* than gPingTimeout old
Transmitted(after, before, pkt) ==
    /\ after.address = pkt.to
    /\ KeyField(after.session, after.key) = pkt.key
    /\ after.time = now
    /\ \/ after.tryCount = PingTries(after) - 1
       \/ \E ping \in before :
             /\ ping.address = after.address
             /\ ping.broadcast = after.broadcast
             /\ ping.tryCount = after.tryCount + 1
             /\ ping.time + gPingTimeout < now

\* the pings are being processed: a step of the session is scheduled
PingsInProgress == \E j \in 1..Len(events) : events[j].session = gPingSession

\* C29: a Ping is queued with 4 tries, a broadcast Ping with 1, and a
\* broadcast Ping that has not been transmitted yet is about to be; every
\* transmission takes one try, follows the one before by more than
\* gPingTimeout and carries a key no request carried before; when the ping
\* loop finds a Ping without tries whose time out has passed, the Ping leaves
\* pingList, its address is finished, and a ServerInfo for it is TimedOut.
C29_PingRetries ==
    /\ [](\A ping \in PingEntries(gPingList) :
             /\ ping.tryCount <= PingTries(ping)
             /\ (ping.broadcast /\ ping.tryCount = 1) => PingsInProgress)
    /\ [][now' = now =>
            /\ \A j \in 1..Len(out') : out'[j].type = "GamePingRequest" =>
                  /\ \E after \in PingEntries(gPingList') :
                        Transmitted(after, PingEntries(gPingList), out'[j])
                  /\ \A q \in wire : q.key # out'[j].key
                  /\ \A k \in 1..Len(out') : out'[k].key = out'[j].key => k = j
            /\ (EventStep /\ events[NextEvent].type = "ProcessPingEvent"
                          /\ events[NextEvent].session = gPingSession) =>
                  \A j \in 1..Len(gPingList) :
                      (/\ j <= gMaxConcurrentPings
                       /\ gPingList[j].tryCount = 0
                       /\ gPingList[j].time + gPingTimeout < now)
                        => /\ gPingList[j] \notin PingEntries(gPingList')
                           /\ gFinishedList'[gPingList[j].address]
                                 > gFinishedList[gPingList[j].address]
                           /\ \A k \in 1..Len(gServerList') :
                                 gServerList'[k].address = gPingList[j].address
                                    => "TimedOut" \in gServerList'[k].status]_vars

---------------------------------------------------------------------------
(* Query retries *)

\* C30: a query is queued with gQueryRetryCount tries; every GameInfoRequest
\* sent takes one try and is the first to that entry or follows the one
\* before by gQueryTimeout or more; an entry without tries leaves queryList
\* unanswered only when its last request is gQueryTimeout old or older, and
\* then its ServerInfo is TimedOut.
C30_QueryRetries ==
    /\ [](\A query \in PingEntries(gQueryList) : query.tryCount <= gQueryRetryCount)
    /\ [][now' = now =>
            /\ \A j \in 1..Len(out') : out'[j].type = "GameInfoRequest" =>
                  \E after \in PingEntries(gQueryList') :
                      /\ after.address = out'[j].to
                      /\ KeyField(after.session, after.key) = out'[j].key
                      /\ after.time = now
                      /\ \/ after.tryCount = gQueryRetryCount - 1
                         \/ \E query \in PingEntries(gQueryList) :
                               /\ query.address = after.address
                               /\ query.tryCount = after.tryCount + 1
                               /\ query.time + gQueryTimeout <= now
            /\ (EventStep /\ events[NextEvent].type = "ProcessPingEvent"
                          /\ events[NextEvent].session = gPingSession) =>
                  \A query \in PingEntries(gQueryList) :
                      (query.tryCount = 0 /\ query \notin PingEntries(gQueryList'))
                        => /\ query.time + gQueryTimeout <= now
                           /\ \A k \in 1..Len(gServerList') :
                                 gServerList'[k].address = query.address
                                    => "TimedOut" \in gServerList'[k].status]_vars

---------------------------------------------------------------------------
(* Ping responses *)

\* ping responses on either side of every test, under the key the Ping of
\* the address expects and under another one
PingResponses(from) ==
    LET p == gPingList[findPingEntry(gPingList, from) + 1] IN
    {[key |-> key, versionTag |-> tag, protocolCurrent |-> current,
      protocolMin |-> min, buildVersion |-> build] :
        key \in {KeyField(p.session, p.key), KeyField(p.session, p.key + 1)},
        tag \in {"VER1", "VER2"},
        current \in {MinRequiredProtocolVersion - 1, MinRequiredProtocolVersion},
        min \in {CurrentProtocolVersion, CurrentProtocolVersion + 1},
        build \in {VersionNumber, VersionNumber + 1}}

\* the filter is applied to a ping response from this address
PingFilterApplies(from) ==
    /\ sActiveFilter.type \in {"Normal", "OfflineFiltered"}
    /\ \A j \in 1..Len(gServerList) :
          gServerList[j].address = from => "Updating" \notin gServerList[j].status

\* the address has been added to the end of queryList
Promoted(s, from) ==
    /\ Len(s.gQueryList) = Len(gQueryList) + 1
    /\ s.gQueryList[Len(s.gQueryList)].address = from

\* the tests of C31 on a ping response for the Ping of this address
PingResponseGood(from, pkt) ==
    LET p == gPingList[findPingEntry(gPingList, from) + 1]
        ping == IF now > p.time THEN now - p.time ELSE 0
    IN /\ pkt.key = KeyField(p.session, p.key)
       /\ pkt.versionTag = "VER1"
       /\ pkt.protocolCurrent >= MinRequiredProtocolVersion
       /\ CurrentProtocolVersion >= pkt.protocolMin
       /\ \/ ~PingFilterApplies(from)
          \/ sActiveFilter.maxPing = 0
          \/ ping <= sActiveFilter.maxPing
       /\ pkt.buildVersion = VersionNumber

\* C31: a GamePingResponse from an address that has a Ping in pingList adds
\* the address to queryList iff it echoes the key of that Ping, its version
\* tag is "VER1", the peer's current protocol is at least our minimum, our
\* current protocol is at least the peer's minimum, the filter is not applied
\* or maxPing is 0 or the measured ping is at most maxPing, and the peer's
\* build version is ours.
C31_PingResponsePromotes ==
    \A from \in Servers :
        findPingEntry(gPingList, from) # -1 =>
            \A pkt \in PingResponses(from) :
                Promoted(handleGamePingResponse(Globals, from, pkt), from)
                    <=> PingResponseGood(from, pkt)

\* a filtered LAN query with maxPing set: server 1 answered its ping in time
\* and now waits in queryList, while a Ping that was sent more than maxPing
\* ago is still unanswered
C31_Witness ==
    /\ lastOp = "GamePingResponse"
    /\ sActiveFilter.type = "OfflineFiltered"
    /\ sActiveFilter.maxPing > 0
    /\ findPingEntry(gQueryList, 1) # -1
    /\ \E from \in Servers :
          /\ findPingEntry(gPingList, from) # -1
          /\ PingFilterApplies(from)
          /\ LET p == gPingList[findPingEntry(gPingList, from) + 1]
             IN p.time # 0 /\ now - p.time > sActiveFilter.maxPing

\* the test a correctly keyed ping response fails first, in the order of the code
RejectReason(from, pkt) ==
    LET p == gPingList[findPingEntry(gPingList, from) + 1]
        ping == IF now > p.time THEN now - p.time ELSE 0
    IN IF pkt.versionTag # "VER1" THEN "versionTag"
       ELSE IF pkt.protocolCurrent < MinRequiredProtocolVersion THEN "protocol"
       ELSE IF CurrentProtocolVersion < pkt.protocolMin THEN "protocol"
       ELSE IF /\ PingFilterApplies(from)
               /\ sActiveFilter.maxPing > 0
               /\ ping > sActiveFilter.maxPing THEN "maxPing"
       ELSE IF pkt.buildVersion # VersionNumber THEN "buildVersion"
       ELSE "none"

\* the correctly keyed ping responses from this address that fail a test
RejectedResponses(from) ==
    {pkt \in PingResponses(from) :
        /\ pkt.key = KeyField(gPingList[findPingEntry(gPingList, from) + 1].session,
                              gPingList[findPingEntry(gPingList, from) + 1].key)
        /\ RejectReason(from, pkt) # "none"}

\* what a rejected response does to the ServerInfo of its address
RejectedServerInfo(s, from, pkt) ==
    IF RejectReason(from, pkt) \in {"versionTag", "protocol"}
    THEN /\ Len(s.gServerList) = Len(gServerList)
         /\ \A j \in 1..Len(gServerList) :
               IF gServerList[j].address = from
               THEN s.gServerList[j] = [gServerList[j] EXCEPT !.status = {"TimedOut"}]
               ELSE s.gServerList[j] = gServerList[j]
    ELSE /\ \A j \in 1..Len(s.gServerList) : s.gServerList[j].address # from
         /\ Len(s.gServerList) = Len(gServerList) - CountOf(gServerList, from)

\* what a rejected response does at once, whatever else pingList holds
RejectedNow(s, from, pkt) ==
    /\ s.gPingList = Erase(gPingList, findPingEntry(gPingList, from) + 1)
    /\ s.gFinishedList[from] > 0
    /\ s.gQueryList = gQueryList
    /\ \A j \in 1..Len(s.out) : s.out[j].type # "GameInfoRequest"
    /\ RejectedServerInfo(s, from, pkt)

\* the GameInfoRequests of this step
InfoRequestsSent ==
    {j \in 1..Len(out') : now' = now /\ out'[j].type = "GameInfoRequest"}

---------------------------------------------------------------------------
(* Anonymous ping responses *)

\* ping responses of either version under every key on the wire, the key
\* field of an untransmitted Ping and the key of the next transmission
AnonymousResponses(from) ==
    {[key |-> key, versionTag |-> tag,
      protocolCurrent |-> CurrentProtocolVersion,
      protocolMin |-> MinRequiredProtocolVersion, buildVersion |-> VersionNumber] :
        key \in EchoKeys("GamePingRequest", from)
                  \cup {KeyField(gPingSession, 0), KeyField(gPingSession, gKey)},
        tag \in {"VER1", "VER2"}}

\* the addresses a ping response is anonymous for: of the responders and of
\* one server more
AnonymousAddresses ==
    {from \in 1..(NumResponders + 1) :
                        /\ Len(gPingList) # 0
                        /\ findPingEntry(gPingList, from) = -1
                        /\ gFinishedList[from] = 0}

\* the globals with nothing sent and nothing emitted yet
Quiet(s) == [s EXCEPT !.out = <<>>, !.emitted = <<>>]

\* C33: a GamePingResponse from an address with no Ping in a non-empty
\* pingList and not in the finished set appends exactly one Ping for it,
\* untransmitted, with isLocal = true, broadcast = false and the full retry
\* count, and changes neither ServerList nor queryList; the next run of
\* processPingsAndQueries sends that Ping's GamePingRequest to the address
\* itself; a second response from the address adds no second Ping.
C33_AnonymousResponsePinged ==
    \A from \in AnonymousAddresses :
        \A pkt \in AnonymousResponses(from) :
            LET s1 == handleGamePingResponse(Globals, from, pkt)
                s2 == processPingsAndQueries(Quiet(s1), gPingSession, TRUE)
            IN /\ s1.gPingList =
                      Append(gPingList, [address |-> from, session |-> gPingSession,
                                         key |-> 0, time |-> 0,
                                         tryCount |-> gPingRetryCount,
                                         broadcast |-> FALSE, isLocal |-> TRUE])
               /\ s1.gServerList = gServerList
               /\ s1.gQueryList = gQueryList
               /\ s1.out = <<>>
               /\ Len(s1.gPingList) <= gMaxConcurrentPings =>
                     /\ \E j \in 1..Len(s2.out) :
                           /\ s2.out[j].type = "GamePingRequest"
                           /\ s2.out[j].to = from
                     /\ \E j \in 1..Len(s2.gPingList) :
                           /\ s2.gPingList[j].address = from
                           /\ s2.gPingList[j].time = now
                           /\ s2.gPingList[j].tryCount = gPingRetryCount - 1
               /\ \A again \in AnonymousResponses(from) :
                     CountOf(handleGamePingResponse(s1, from, again).gPingList, from) <= 1

\* a server that answered the broadcast has been given a Ping of its own,
\* and ProcessPingEvent has sent it its first GamePingRequest
C33_Witness ==
    /\ lastOp = "ProcessPingEvent"
    /\ \E j \in 1..Len(gPingList) :
          /\ gPingList[j].address \in Servers
          /\ gPingList[j].isLocal
          /\ ~gPingList[j].broadcast
          /\ gPingList[j].time = now
          /\ gPingList[j].tryCount = gPingRetryCount - 1
          /\ \E k \in 1..Len(out) : /\ out[k].type = "GamePingRequest"
                                    /\ out[k].to = gPingList[j].address

---------------------------------------------------------------------------
(* Picking a master *)

\* master lists of up to three entries, with repeated addresses and regions
PickLists ==
    UNION {[1..n -> [address : Masters, region : 1..3]] : n \in 0..3}

\* the indices of a list in ascending wrap-around order from currentTime mod count
PickOrder(list) == [i \in 1..Len(list) |-> ((now % Len(list)) + i - 1) % Len(list)]

\* the master C34 says is selected from a non-empty list
PickExpected(list) ==
    LET hits == {i \in 1..Len(list) : list[PickOrder(list)[i] + 1].region = prefRegion}
    IN IF hits = {}
       THEN list[(now % Len(list)) + 1]
       ELSE list[PickOrder(list)[CHOOSE i \in hits : \A k \in hits : i <= k] + 1]

\* the master query has dropped a master in this step of a session
MasterRemoved ==
    /\ gPingSession' = gPingSession
    /\ Len(gMasterServerList') < Len(gMasterServerList)

---------------------------------------------------------------------------
(* Stale events *)

StaleSessions == (0..(MaxSession + 1)) \ {gPingSession}

\* the due event is one of the three query events and carries another session
StaleEventDue ==
    /\ EventDue
    /\ events[NextEvent].type \in {"ProcessMasterQueryEvent", "ProcessPingEvent",
                                   "ProcessPacketEvent"}
    /\ events[NextEvent].session # gPingSession

\* C35: a ProcessMasterQueryEvent, ProcessPingEvent or ProcessPacketEvent
\* whose session is not the current one is discarded when it fires: the
\* event leaves the queue and nothing else changes, no packet is sent, no
\* status event is emitted and no event is posted.
C35_StaleEventDiscarded ==
    /\ [](\A session \in StaleSessions :
            /\ processMasterServerQuery(Globals, session) = Globals
            /\ processPingsAndQueries(Globals, session, TRUE) = Globals
            /\ processServerListPackets(Globals, session) = Globals)
    /\ [][(StaleEventDue /\ events' # events) =>
            /\ events' = Erase(events, NextEvent)
            /\ out' = <<>>
            /\ emitted' = <<>>
            /\ wire' = wire
            /\ <<gServerList, gMasterServerList, gFinishedList,
                 gMasterServerQueryAddress, sgServerQueryActive, gPingSession, gKey,
                 gGotFirstListPacket, gServerPingCount, gServerQueryCount,
                 gMasterServerPing, gPingList, gQueryList, gPacketStatusList,
                 sActiveFilter>>' =
               <<gServerList, gMasterServerList, gFinishedList,
                 gMasterServerQueryAddress, sgServerQueryActive, gPingSession, gKey,
                 gGotFirstListPacket, gServerPingCount, gServerQueryCount,
                 gMasterServerPing, gPingList, gQueryList, gPacketStatusList,
                 sActiveFilter>>]_vars

\* a second query is running with Pings waiting, and the ProcessPingEvent of
\* the first query has just fired: it sent nothing, emitted nothing and left
\* no ProcessPingEvent behind for the next millisecond
C35_Witness ==
    /\ lastOp = "ProcessPingEvent"
    /\ gPingSession > 1
    /\ gPingList # <<>>
    /\ out = <<>>
    /\ emitted = <<>>
    /\ \A j \in 1..Len(events) :
          ~(events[j].type = "ProcessPingEvent" /\ events[j].due = now + 1)

---------------------------------------------------------------------------
(* One chain, one done *)

\* the pending ProcessPingEvents of the current session
LivePingEvents ==
    {j \in 1..Len(events) : /\ events[j].type = "ProcessPingEvent"
                            /\ events[j].session = gPingSession}

DoneEmitted(list) == \E j \in 1..Len(list) : Done(list[j])

\* C36: at most one ProcessPingEvent of the current session is pending at
\* any time, and "done" is not emitted by two steps in a row of one session
\* unless the second starts a query.
C36_OneChainOneDone ==
    /\ [](Cardinality(LivePingEvents) <= 1)
    /\ [][(/\ DoneEmitted(emitted)
           /\ DoneEmitted(emitted')
           /\ gPingSession' = gPingSession
           /\ lastOp' # lastOp \/ events' # events \/ opsLeft' # opsLeft)
              => QueryStartStep]_vars

---------------------------------------------------------------------------
(* Termination *)

\* the one console operation so far was querySingleServer: the others that
\* leave a query active start a new session
OnlySingleQuery ==
    /\ opsLeft = MaxOps - 1
    /\ gPingSession = 0
    /\ sgServerQueryActive

\* C37, for querySingle on an idle client: with every packet lost the ping
\* is transmitted at most 4 times, 800 ms apart, and the query ends: once
\* DoneDeadline ms have passed and no event is due, "done" has been emitted
\* and no ProcessPingEvent of the session is pending any more.
C37_SingleQueryEnds ==
    (OnlySingleQuery /\ now >= StartTime + DoneDeadline /\ ~EventDue)
        => /\ ~ProcessPingPending
           /\ gPingList = <<>>
           /\ gQueryList = <<>>

---------------------------------------------------------------------------
(* Sessions of the Pings *)

\* C38: every Ping in pingList and in queryList carries the current session;
\* the session changes only by one, in a console operation that starts a
\* query through clearServerList, which empties both lists; every
\* GamePingRequest and GameInfoRequest sent carries the current session.
C38_PingsOfCurrentSession ==
    /\ [](/\ \A j \in 1..Len(gPingList) : gPingList[j].session = gPingSession
          /\ \A j \in 1..Len(gQueryList) : gQueryList[j].session = gPingSession
          /\ \A clearServerInfo \in BOOLEAN :
                LET s == clearServerList(Globals, clearServerInfo)
                IN /\ s.gPingSession = gPingSession + 1
                   /\ s.gPingList = <<>>
                   /\ s.gQueryList = <<>>)
    /\ [][/\ gPingSession' # gPingSession =>
                /\ gPingSession' = gPingSession + 1
                /\ \/ ConsoleStep("queryLanServers")
                   \/ ConsoleStep("queryMasterServer")
                   \/ ConsoleStep("queryFavoriteServers")
                /\ gQueryList' = <<>>
                /\ \A j \in 1..Len(gPingList') :
                      /\ gPingList'[j].session = gPingSession'
                      /\ gPingList'[j].time \in {0, now}
          /\ \A j \in 1..Len(out') :
                (now' = now /\ out'[j].type \in {"GamePingRequest", "GameInfoRequest"})
                    => SessionOf(out'[j].key) = gPingSession']_vars

\* the second query of a behaviour has replaced the Pings of the first: a
\* server waits in queryList under session 2 and a request of session 2 has
\* just been sent
C38_Witness ==
    /\ gPingSession = MaxSession
    /\ gQueryList # <<>>
    /\ \E j \in 1..Len(out) :
          /\ out[j].type \in {"GamePingRequest", "GameInfoRequest"}
          /\ SessionOf(out[j].key) = gPingSession

---------------------------------------------------------------------------
(* Keys of ping responses *)

\* well-formed ping responses from this address under every key a
\* GamePingRequest to it, or to the broadcast address, has carried
EchoedPingResponses(from) ==
    {[key |-> key, versionTag |-> PingOk.versionTag,
      protocolCurrent |-> PingOk.protocolCurrent, protocolMin |-> PingOk.protocolMin,
      buildVersion |-> PingOk.buildVersion] :
        key \in EchoKeys("GamePingRequest", from)}

\* the response is taken as the answer to the Ping of its address
PingMatched(from, pkt) ==
    /\ findPingEntry(gPingList, from) # -1
    /\ handleGamePingResponse(Globals, from, pkt).gPingList # gPingList

\* C39: a GamePingResponse is taken as the answer to a Ping only if that
\* Ping has been transmitted and a GamePingRequest with the echoed key field
\* was sent to the Ping's address; a Ping still queued (key 0, time 0) is
\* matched by no response.
C39_OnlySentKeysMatch ==
    \A from \in Servers :
        \A pkt \in EchoedPingResponses(from) :
            PingMatched(from, pkt) =>
                LET p == gPingList[findPingEntry(gPingList, from) + 1]
                IN /\ p.time # 0
                   /\ \E q \in wire : /\ q.type = "GamePingRequest"
                                      /\ q.to = p.address
                                      /\ q.key = pkt.key

---------------------------------------------------------------------------
(* Keys of earlier transmissions *)

PingRequestsTo(from) == {q \in wire : q.type = "GamePingRequest" /\ q.to = from}

\* the key fields of the GamePingRequests to this address that were followed
\* by a later one
EarlierPingKeys(from) ==
    {q.key : q \in {r \in PingRequestsTo(from) :
                        \E later \in PingRequestsTo(from) : later.at > r.at}}

\* the list requests to a master, not the re-requests of single fragments
MasterListRequests == {q \in wire : q.type = "MasterServerListRequest" /\ q.page = 255}

\* the key fields of the master requests that were followed by a later one,
\* to the same master or to the next one picked
EarlierMasterKeys ==
    {q.key : q \in {r \in MasterListRequests :
                        \E later \in MasterListRequests : later.at > r.at}}

\* C40: a GamePingResponse from an address that has a Ping in pingList and
\* echoes the key field of a GamePingRequest to that address that has since
\* been followed by another one is dropped: nothing changes and the Ping
\* stays. A MasterServerListResponse that echoes the key field of a master
\* request that has since been followed by another one, to the same master
\* or to the next, is dropped.
C40_EarlierKeysDropped ==
    /\ \A from \in Servers :
          findPingEntry(gPingList, from) # -1 =>
              \A key \in EarlierPingKeys(from) :
                  handleGamePingResponse(Globals, from,
                      [key |-> key, versionTag |-> PingOk.versionTag,
                       protocolCurrent |-> PingOk.protocolCurrent,
                       protocolMin |-> PingOk.protocolMin,
                       buildVersion |-> PingOk.buildVersion]) = Globals
    /\ \A key \in EarlierMasterKeys :
          \A packetIndex \in 0..(MaxPacketTotal - 1), packetTotal \in 1..MaxPacketTotal :
              handleMasterServerListResponse(Globals,
                  [key |-> key, packetIndex |-> packetIndex,
                   packetTotal |-> packetTotal, servers |-> <<1>>]) = Globals

====
